---------------------------- MODULE Spec2Model ----------------------------
(***************************************************************************)
(* A model of the triage core of overwatch: the model-tier router, the     *)
(* cost tracker and its callers, the Claude escalation agent, the decision *)
(* aggregator with its accuracy history, the feature extractors, and the   *)
(* Observation with its store and the time-based test that saves it.       *)
(*                                                                         *)
(* Money is counted in units of 1e-4 dollar (the precision _estimate_cost  *)
(* rounds to), confidences in tenths, base weights in hundredths.  Real    *)
(* numbers that the code holds in floats are exact rationals here.         *)
(***************************************************************************)
EXTENDS Integers, Sequences, FiniteSets, TLC

VARIABLES
    routerIn,           \* <<arguments>> of the classify_task call, << >> if none
    routerOut,          \* <<the TaskClassification it returned>>, << >> before
    ledger,             \* rows of AIUsageLog, in insertion order
    today,              \* the current UTC date
    pc,                 \* per escalation decision: where it stands
    est,                \* per escalation decision: its estimated cost
    seen,               \* per escalation decision: today_spend read by can_make_request
    answer,             \* per escalation decision: what can_make_request returned
    agentPc,            \* analyze_observations: where it stands
    agentObs,           \* analyze_observations: its observations
    calls,              \* analyze_observations: the calls it has made, in order
    agentResult,        \* analyze_observations: how it ended
    weights,            \* DecisionAggregator.weights
    accuracy_history,   \* DecisionAggregator.accuracy_history
    aggIn,              \* <<arguments>> of the aggregate call, << >> if none
    aggOut,             \* <<the result it returned>>
    recIn,              \* <<arguments>> of the last record_outcome call, << >> if none
    boots,              \* the number of times the service process was restarted
    thPc,               \* per thread in record_outcome: the line it stands at
    thCorrect,          \* per thread in record_outcome: its local correct
    thSlice,            \* per thread in record_outcome: the slice line 145 has read
    raceStart,          \* the length of the history when the threads were started
    featIn,             \* <<extractor, raw_data>> of the extract call, << >> if none
    featOut,            \* <<what extract returned or raised>>
    obsMem,             \* the Observation objects in memory, by creation order
    obsDb,              \* the rows of the observations table, in insertion order
    sqliNames,          \* the names bound in the globals of detectors/sqli.py
    sqliOut,            \* <<how the last SQLiDetector call ended>>, << >> if none
    saveOut,            \* <<how the last save or save_batch call ended>>
    scopeIn,            \* <<target, url_or_ip>> of the is_in_scope call, << >> if none
    scopeOut,           \* <<what is_in_scope returned or raised>>
    scanArgs,           \* <<arguments>> of the run_scan task, << >> before it is sent
    scanPc,             \* run_scan: where the run stands
    jobs,               \* the rows of scan_jobs, by id
    findings,           \* the rows of findings, in insertion order
    scannerCalls,       \* the calls of NmapScanner.scan, in order
    scanResult,         \* <<what NmapScanner.scan returned to the run>>
    scanOut             \* <<what the run returned or raised>>

routerVars == <<routerIn, routerOut>>
budgetVars == <<ledger, today, pc, est, seen, answer>>
agentVars  == <<agentPc, agentObs, calls, agentResult>>
aggVars    == <<weights, accuracy_history, aggIn, aggOut>>
recVars    == <<recIn>>
bootVars   == <<boots>>
raceVars   == <<thPc, thCorrect, thSlice, raceStart>>
featVars   == <<featIn, featOut>>
obsVars    == <<obsMem, obsDb, sqliNames, sqliOut, saveOut>>
scopeVars  == <<scopeIn, scopeOut>>
scanVars   == <<scanArgs, scanPc, jobs, findings, scannerCalls, scanResult, scanOut>>
lateVars   == <<obsVars, scopeVars, scanVars>>
moreVars   == <<raceVars, featVars, lateVars>>
otherVars  == <<bootVars, moreVars>>
extVars    == <<recVars, otherVars>>
vars == <<routerIn, routerOut, ledger, today, pc, est, seen, answer,
          agentPc, agentObs, calls, agentResult,
          weights, accuracy_history, aggIn, aggOut, recIn, boots,
          thPc, thCorrect, thSlice, raceStart, featIn, featOut, obsMem, obsDb,
          sqliNames, sqliOut, saveOut, scopeIn, scopeOut,
          scanArgs, scanPc, jobs, findings, scannerCalls, scanResult, scanOut>>

None == "none"

(***************************************************************************)
(* Bounds of the model.                                                    *)
(***************************************************************************)
MaxObs == 64
NumProcs == 3
MaxDay == 1
MaxCluster == 2
MaxPreds == 2
MaxHist == 10
FreeLen == 3
MaxRec == 2
MaxBoots == 1
NumThreads == 2
MaxMem == 2
MaxRows == 4
MaxTruth == 1

(***************************************************************************)
(* ModelRouter (brain/model_router.py)                                     *)
(***************************************************************************)
HAIKU == "haiku"
SONNET == "sonnet"
OPUS == "opus"

\* The order classify_task walks the tiers in.
TierOrder == <<HAIKU, SONNET, OPUS>>

TierRank(t) == CASE t = HAIKU -> 1 [] t = SONNET -> 2 [] t = OPUS -> 3

HaikuMaxObservations == 5
HaikuMaxTokens == 2000
SonnetMaxObservations == 20
SonnetMaxTokens == 8000
OpusMaxTokens == 32000

\* TIER_CRITERIA; max_observations of OPUS is float("inf"): no limit.
TierTaskTypes(t) ==
    CASE t = HAIKU  -> {"log_parsing", "simple_classification", "tool_output_summary"}
      [] t = SONNET -> {"vulnerability_analysis", "report_generation", "chain_detection"}
      [] t = OPUS   -> {"business_logic_analysis", "novel_attack_chains", "complex_exploitation"}

WithinMaxObservations(t, n) ==
    CASE t = HAIKU  -> n <= HaikuMaxObservations
      [] t = SONNET -> n <= SonnetMaxObservations
      [] t = OPUS   -> TRUE

TierMaxTokens(t) ==
    CASE t = HAIKU -> HaikuMaxTokens [] t = SONNET -> SonnetMaxTokens [] t = OPUS -> OpusMaxTokens

\* PRICING, dollars per million tokens, times 100 (input, output).
PricingX100(t) ==
    CASE t = HAIKU -> <<25, 125>> [] t = SONNET -> <<300, 1500>> [] t = OPUS -> <<1500, 7500>>

TokensPerObservation == 500
ContextTokens == 200
SystemTokens == 300
OutputTokens == 400

\* _estimate_tokens
EstimateTokens(n) == n * TokensPerObservation + ContextTokens + SystemTokens + OutputTokens

\* _estimate_cost: 80% of the tokens at the input price, 20% at the output
\* price, rounded to 4 decimals; the result is in units of 1e-4 dollar.
\* cost/1e-4 = tokens * (8*in + 2*out)/10 / 1e6 * 1e4, with in, out times 100:
\*           = tokens * (8*inX100 + 2*outX100) / 100000, rounded to nearest.
EstimateCost(t, tokens) ==
    LET p == PricingX100(t)
        num == (tokens \div 100) * (8 * p[1] + 2 * p[2])
    IN  (2 * num + 1000) \div 2000

Classification(t, tokens, why) ==
    [tier |-> t, estimated_tokens |-> tokens,
     estimated_cost |-> EstimateCost(t, tokens), reasoning |-> why]

TierFitsIgnoringTokens(t, task_type, n) ==
    /\ task_type \in TierTaskTypes(t)
    /\ WithinMaxObservations(t, n)

\* The tier test of classify_task's loop (lines 66-71).
TierFits(t, task_type, n) ==
    /\ task_type \in TierTaskTypes(t)
    /\ WithinMaxObservations(t, n)
    /\ EstimateTokens(n) <= TierMaxTokens(t)

RECURSIVE ClassifyFrom(_, _, _)
ClassifyFrom(i, task_type, n) ==
    IF i > Len(TierOrder)
    THEN Classification(SONNET, EstimateTokens(n), "default")
    ELSE IF TierFits(TierOrder[i], task_type, n)
         THEN Classification(TierOrder[i], EstimateTokens(n), "fits")
         ELSE ClassifyFrom(i + 1, task_type, n)

\* classify_task(task_type, observations, context) with len(observations) = n
classify_task(task_type, n) == ClassifyFrom(1, task_type, n)

TaskTypes ==
    TierTaskTypes(HAIKU) \cup TierTaskTypes(SONNET) \cup TierTaskTypes(OPUS)
        \cup {"unknown_task"}

RouterInputs == [task_type : TaskTypes, num_obs : 0..MaxObs]

\* No call is in progress.
RouterIdle ==
    /\ routerIn = << >>
    /\ routerOut = << >>

\* A caller holds the arguments of its call.
RouterInit ==
    /\ routerIn \in {<<i>> : i \in RouterInputs}
    /\ routerOut = << >>

ClassifyTask ==
    /\ routerIn # << >>
    /\ routerOut = << >>
    /\ routerOut' = <<classify_task(routerIn[1].task_type, routerIn[1].num_obs)>>
    /\ UNCHANGED <<routerIn, budgetVars, agentVars, aggVars, extVars>>

\* The caller takes the classification and asks about another task.
NextTask ==
    /\ routerOut # << >>
    /\ \E i \in RouterInputs :
        /\ routerIn' = <<i>>
        /\ routerOut' = << >>
        /\ UNCHANGED <<budgetVars, agentVars, aggVars, extVars>>

(***************************************************************************)
(* CostTracker (brain/cost_tracker.py) and the escalation decisions that   *)
(* consult it.  A decision asks can_make_request for its estimated cost    *)
(* once and, only if the answer was true, later calls record_usage with    *)
(* it; NumProcs decisions are made, in any interleaving.                   *)
(***************************************************************************)
Procs == 1..NumProcs

\* daily_budget: float = 5.0
DailyBudget == 50000

\* Estimated costs the decisions ask for, and the ledgers the tracker may
\* be constructed over (the table outlives the tracker object).
Costs == {4000, 5000, 6000}
MaxCost == CHOOSE c \in Costs : \A d \in Costs : d <= c
InitialLedgers == {<< >>, <<[cost |-> 45000, day |-> 0]>>}

RECURSIVE SumCostOn(_, _)
SumCostOn(rows, day) ==
    IF rows = << >> THEN 0
    ELSE (IF Head(rows).day = day THEN Head(rows).cost ELSE 0)
             + SumCostOn(Tail(rows), day)

GetSpendOfAllDays == SumCostOn([i \in DOMAIN ledger |-> [ledger[i] EXCEPT !.day = today]], today)

\* get_daily_spend: select sum(cost) where date(timestamp) == today, or 0.0
GetDailySpend == SumCostOn(ledger, today)

WithinBudgetStrict(today_spend, estimated_cost) ==
    (today_spend + estimated_cost) < DailyBudget

WithinBudgetIgnoringCost(today_spend, estimated_cost) ==
    today_spend <= DailyBudget

WithinBudgetOfOneRequest(today_spend, estimated_cost) ==
    estimated_cost <= DailyBudget

\* can_make_request's comparison (line 19)
WithinBudget(today_spend, estimated_cost) ==
    (today_spend + estimated_cost) <= DailyBudget

BudgetIdle ==
    /\ ledger = << >>
    /\ today = 0
    /\ pc = [p \in Procs |-> "idle"]
    /\ est = [p \in Procs |-> 0]
    /\ seen = [p \in Procs |-> 0]
    /\ answer = [p \in Procs |-> FALSE]

BudgetInit ==
    /\ ledger \in InitialLedgers
    /\ today = 0
    /\ pc = [p \in Procs |-> "idle"]
    /\ est = [p \in Procs |-> 0]
    /\ seen = [p \in Procs |-> 0]
    /\ answer = [p \in Procs |-> FALSE]

\* await can_make_request(estimated_cost)
CanMakeRequest(p) ==
    /\ pc[p] = "idle"
    /\ \E c \in Costs :
        /\ est' = [est EXCEPT ![p] = c]
        /\ seen' = [seen EXCEPT ![p] = GetDailySpend]
        /\ answer' = [answer EXCEPT ![p] = WithinBudget(GetDailySpend, c)]
        /\ pc' = [pc EXCEPT ![p] = "asked"]
        /\ UNCHANGED <<ledger, today, routerVars, agentVars, aggVars, extVars>>

\* await record_usage(..., cost=estimated_cost, ...): one row, stamped utcnow()
RecordUsage(p) ==
    /\ pc[p] = "asked"
    /\ answer[p]
    /\ ledger' = Append(ledger, [cost |-> est[p], day |-> today])
    /\ pc' = [pc EXCEPT ![p] = "recorded"]
    /\ UNCHANGED <<today, est, seen, answer, routerVars, agentVars, aggVars, extVars>>

\* The answer was false: the decision does not escalate and records nothing.
SkipEscalation(p) ==
    /\ pc[p] = "asked"
    /\ ~answer[p]
    /\ pc' = [pc EXCEPT ![p] = "skipped"]
    /\ UNCHANGED <<ledger, today, est, seen, answer, routerVars, agentVars, aggVars, extVars>>

\* The UTC date advances.
AdvanceDay ==
    /\ today < MaxDay
    /\ today' = today + 1
    /\ UNCHANGED <<ledger, pc, est, seen, answer, routerVars, agentVars, aggVars, extVars>>

(***************************************************************************)
(* ClaudePentestAgent.analyze_observations (brain/claude_agent.py)         *)
(*                                                                         *)
(* An observation is what the agent reads of it: the rule-based confidence *)
(* in hundredths (-1: predictions has no "rule_based" entry) and whether   *)
(* raw_data carries a non-empty body.                                      *)
(***************************************************************************)
RuleConfidences == {-1, 5, 10, 50, 90, 95}
ObservationViews == [rule_based : RuleConfidences, has_body : BOOLEAN]
Clusters == UNION {[1..n -> ObservationViews] : n \in 0..MaxCluster}

RECURSIVE SeqMax(_, _)
SeqMax(s, default) ==
    IF s = << >> THEN default
    ELSE LET m == SeqMax(Tail(s), default)
         IN  IF Tail(s) = << >> THEN Head(s)
             ELSE IF Head(s) >= m THEN Head(s) ELSE m

\* o.predictions.get("rule_based", 0)
RuleBasedOf(o) == IF o.rule_based = -1 THEN 0 ELSE o.rule_based

should_use_llm_closed_band(observations) ==
    LET max_rule_conf ==
            SeqMax([i \in 1..Len(observations) |-> RuleBasedOf(observations[i])], 0)
    IN  ~(max_rule_conf >= 90 \/ max_rule_conf <= 10)

\* _should_use_llm: max(..., default=0); False when > 0.9 or < 0.1
should_use_llm(observations) ==
    LET max_rule_conf ==
            SeqMax([i \in 1..Len(observations) |-> RuleBasedOf(observations[i])], 0)
    IN  ~(max_rule_conf > 90 \/ max_rule_conf < 10)

\* _build_prompt reaches _extract_interesting_content for an observation with
\* a non-empty body; that method uses re, which the module never imports.
BuildPromptRaises(observations) ==
    \E i \in 1..Len(observations) : observations[i].has_body

AgentInit ==
    /\ agentPc = "idle"
    /\ agentObs = << >>
    /\ calls = << >>
    /\ agentResult = None

\* analyze_observations is entered: line 55, prompt = self._build_prompt(...)
AnalyzeObservations ==
    /\ agentPc \in {"idle", "done"}
    /\ \E observations \in Clusters :
        /\ agentObs' = observations
        /\ calls' = <<"_build_prompt">>
        /\ IF BuildPromptRaises(observations)
           THEN agentPc' = "done" /\ agentResult' = "NameError"
           ELSE agentPc' = "gate" /\ agentResult' = None
        /\ UNCHANGED <<routerVars, budgetVars, aggVars, extVars>>

\* lines 58-59: if not self._should_use_llm(observations): return None
EscalationGate ==
    /\ agentPc = "gate"
    /\ calls' = Append(calls, "_should_use_llm")
    /\ IF should_use_llm(agentObs)
       THEN agentPc' = "call" /\ agentResult' = None
       ELSE agentPc' = "done" /\ agentResult' = "returned None"
    /\ UNCHANGED <<agentObs, routerVars, budgetVars, aggVars, extVars>>

\* line 62: response = await self._call_claude(prompt); the API call answers
\* or raises.
CallClaude ==
    /\ agentPc = "call"
    /\ \E ok \in BOOLEAN :
        /\ calls' = Append(calls, "_call_claude")
        /\ agentPc' = IF ok THEN "parse" ELSE "except"
        /\ UNCHANGED <<agentObs, agentResult, routerVars, budgetVars, aggVars, extVars>>

\* line 63: self._parse_response(response); the class defines no such method,
\* the AttributeError is caught at line 73.
ParseResponse ==
    /\ agentPc = "parse"
    /\ calls' = Append(calls, "_parse_response")
    /\ agentPc' = "except"
    /\ UNCHANGED <<agentObs, agentResult, routerVars, budgetVars, aggVars, extVars>>

\* lines 73-75: logger.error(...); the module defines no logger, so the
\* handler itself raises NameError before its return None.
ExceptHandler ==
    /\ agentPc = "except"
    /\ calls' = Append(calls, "logger.error")
    /\ agentPc' = "done"
    /\ agentResult' = "NameError"
    /\ UNCHANGED <<agentObs, routerVars, budgetVars, aggVars, extVars>>

(***************************************************************************)
(* Exact rationals: [n |-> numerator, d |-> denominator > 0], in lowest    *)
(* terms.  They stand for the floats of decision_aggregator.py.            *)
(***************************************************************************)
Abs(x) == IF x < 0 THEN -x ELSE x

RECURSIVE GCD(_, _)
GCD(a, b) == IF b = 0 THEN a ELSE GCD(b, a % b)

Rat(n, d) == LET g == GCD(Abs(n), d) IN [n |-> n \div g, d |-> d \div g]
RAdd(x, y) == Rat(x.n * y.d + y.n * x.d, x.d * y.d)
RSub(x, y) == Rat(x.n * y.d - y.n * x.d, x.d * y.d)
RMul(x, y) == Rat(x.n * y.n, x.d * y.d)
RDiv(x, y) == Rat(x.n * y.d, x.d * y.n)
RLeq(x, y) == x.n * y.d <= y.n * x.d
RLess(x, y) == x.n * y.d < y.n * x.d
RZero == Rat(0, 1)
ROne == Rat(1, 1)

(***************************************************************************)
(* DecisionAggregator (learning/decision_aggregator.py)                    *)
(***************************************************************************)
PredictorTypes == {"rule_based", "ml_model", "llm"}
VulnTypes == {"sqli", "xss"}

\* The default of __init__ and a configured dictionary (hundredths).
DefaultWeights == [rule_based |-> 30, ml_model |-> 40, llm |-> 30]
ZeroedWeights == [rule_based |-> 0, llm |-> 0]
WeightConfigs == {DefaultWeights, ZeroedWeights}

\* self.weights.get(predictor_type, 0.33)
FallbackWeight == 33
BaseWeight(predictor_type) ==
    IF predictor_type \in DOMAIN weights
    THEN Rat(weights[predictor_type], 100)
    ELSE Rat(FallbackWeight, 100)

\* key = f"{predictor_type}:{vulnerability_type}"
KeyOf(predictor_type, vulnerability_type) == <<predictor_type, vulnerability_type>>

MinSamples == 10
RecentWindow == 50
HistoryCap == 1000
HistoryKeep == 500

\* s[-k:]
LastK(s, k) == IF Len(s) <= k THEN s ELSE SubSeq(s, Len(s) - k + 1, Len(s))

RECURSIVE CountTrue(_)
CountTrue(s) ==
    IF s = << >> THEN 0 ELSE (IF Head(s) THEN 1 ELSE 0) + CountTrue(Tail(s))

AdjustmentOverWholeHistory(history) ==
    RAdd(Rat(1, 2), RMul(Rat(CountTrue(history), Len(history)), Rat(3, 2)))

\* lines 119-121: sum(history[-50:]) / len(history[-50:]); 0.5 + accuracy * 1.5
Adjustment(history) ==
    LET recent == LastK(history, RecentWindow)
        recent_accuracy == Rat(CountTrue(recent), Len(recent))
    IN  RAdd(Rat(1, 2), RMul(recent_accuracy, Rat(3, 2)))

\* _get_dynamic_weight
GetDynamicWeight(predictor_type, vulnerability_type) ==
    LET base_weight == BaseWeight(predictor_type)
        key == KeyOf(predictor_type, vulnerability_type)
    IN  IF key \in DOMAIN accuracy_history /\ Len(accuracy_history[key]) >= MinSamples
        THEN RMul(base_weight, Adjustment(accuracy_history[key]))
        ELSE base_weight

\* Confidences are given in tenths.
Conf(c) == Rat(c, 10)

RECURSIVE SelectRelevant(_, _)
SelectRelevant(predictions, vulnerability_type) ==
    IF predictions = << >> THEN << >>
    ELSE IF Head(predictions).vulnerability_type = vulnerability_type
         THEN <<Head(predictions)>> \o SelectRelevant(Tail(predictions), vulnerability_type)
         ELSE SelectRelevant(Tail(predictions), vulnerability_type)

\* lines 66-75: the loop that accumulates weighted_sum and weight_sum
RECURSIVE WeightedSum(_, _)
WeightedSum(relevant, vulnerability_type) ==
    IF relevant = << >> THEN RZero
    ELSE LET pred == relevant[Len(relevant)]
             weight == GetDynamicWeight(pred.predictor_type, vulnerability_type)
         IN  RAdd(WeightedSum(SubSeq(relevant, 1, Len(relevant) - 1), vulnerability_type),
                  RMul(Conf(pred.confidence), weight))

WeightSumCountingPredictions(relevant, vulnerability_type) ==
    Rat(Len(relevant), 1)

RECURSIVE WeightSum(_, _)
WeightSum(relevant, vulnerability_type) ==
    IF relevant = << >> THEN RZero
    ELSE LET pred == relevant[Len(relevant)]
         IN  RAdd(WeightSum(SubSeq(relevant, 1, Len(relevant) - 1), vulnerability_type),
                  GetDynamicWeight(pred.predictor_type, vulnerability_type))

\* line 77
FinalConfidence(weighted_sum, weight_sum) ==
    IF RLess(RZero, weight_sum) THEN RDiv(weighted_sum, weight_sum) ELSE RZero

RECURSIVE RSum(_)
RSum(s) == IF s = << >> THEN RZero ELSE RAdd(Head(s), RSum(Tail(s)))

\* np.std squared: the population variance of the confidences
Variance(confidences) ==
    LET m == Len(confidences)
        mean == RDiv(RSum(confidences), Rat(m, 1))
        sq == [i \in 1..m |-> RMul(RSub(confidences[i], mean), RSub(confidences[i], mean))]
    IN  RDiv(RSum(sq), Rat(m, 1))

\* An agreement score is held as the v of 1 - sqrt(v): 1.0 is v = 0, 0.0 is
\* v = 1, and 1.0 - np.std(confidences) is v = Variance(confidences).
\* line 81
Agreement(confidences) ==
    IF Len(confidences) > 1 THEN [one_minus_sqrt |-> Variance(confidences)]
    ELSE [one_minus_sqrt |-> RZero]
AgreementZero == [one_minus_sqrt |-> ROne]

\* agreement >= 0.7, that is sqrt(v) <= 0.3, that is v <= 0.09
AgreementAtLeast07(agreement) == RLeq(agreement.one_minus_sqrt, Rat(9, 100))

ActionStrictThreshold(final_confidence, agreement) ==
    IF RLess(Rat(8, 10), final_confidence) /\ AgreementAtLeast07(agreement)
    THEN "report"
    ELSE IF RLeq(Rat(5, 10), final_confidence) THEN "validate" ELSE "ignore"

\* lines 84-89
Action(final_confidence, agreement) ==
    IF RLeq(Rat(8, 10), final_confidence) /\ AgreementAtLeast07(agreement)
    THEN "report"
    ELSE IF RLeq(Rat(5, 10), final_confidence) THEN "validate" ELSE "ignore"

EmptyResultFullAgreement ==
    [confidence |-> RZero, predictor_agreement |-> [one_minus_sqrt |-> RZero],
     recommended_action |-> "ignore"]

\* lines 53-55 and 61-63: the result for no (matching) prediction
EmptyResult ==
    [confidence |-> RZero, predictor_agreement |-> AgreementZero,
     recommended_action |-> "ignore"]

\* aggregate(predictions, vulnerability_type)
aggregate(predictions, vulnerability_type) ==
    LET relevant == SelectRelevant(predictions, vulnerability_type)
    IN  IF predictions = << >> \/ relevant = << >> THEN EmptyResult
        ELSE LET final_confidence ==
                     FinalConfidence(WeightedSum(relevant, vulnerability_type),
                                     WeightSum(relevant, vulnerability_type))
                 confidences == [i \in 1..Len(relevant) |-> Conf(relevant[i].confidence)]
                 agreement == Agreement(confidences)
             IN  [confidence |-> final_confidence,
                  predictor_agreement |-> agreement,
                  recommended_action |-> Action(final_confidence, agreement),
                  individual_predictions |->
                      [i \in 1..Len(relevant) |->
                          [predictor |-> relevant[i].predictor_name,
                           confidence |-> relevant[i].confidence]]]

TrimmedToOldest(history) ==
    IF Len(history) > HistoryCap THEN SubSeq(history, 1, HistoryKeep) ELSE history

\* lines 140-145: the list after the append and the sliding-window trim
Trimmed(history) ==
    IF Len(history) > HistoryCap THEN LastK(history, HistoryKeep) ELSE history

RecordedAboveHalfOnly(history, predicted_confidence, was_correct) ==
    LET correct == ((predicted_confidence > 5) = was_correct)
    IN  Trimmed(Append(history, correct))

\* lines 140-145: correct = (predicted_confidence >= 0.5) == was_correct
Recorded(history, predicted_confidence, was_correct) ==
    LET correct == ((predicted_confidence >= 5) = was_correct)
    IN  Trimmed(Append(history, correct))

HistoryOf(key) ==
    IF key \in DOMAIN accuracy_history THEN accuracy_history[key] ELSE << >>

\* record_outcome(predictor_type, vulnerability_type, predicted_confidence, was_correct)
RecordOutcome(predictor_type, vulnerability_type, predicted_confidence, was_correct) ==
    LET key == KeyOf(predictor_type, vulnerability_type)
    IN  /\ recIn' = <<[predictor_type |-> predictor_type,
                       vulnerability_type |-> vulnerability_type,
                       predicted_confidence |-> predicted_confidence,
                       was_correct |-> was_correct]>>
        /\ accuracy_history' =
               [k \in DOMAIN accuracy_history \cup {key} |->
                   IF k = key
                   THEN Recorded(HistoryOf(key), predicted_confidence, was_correct)
                   ELSE accuracy_history[k]]
        /\ UNCHANGED <<weights, aggIn, aggOut, routerVars, budgetVars, agentVars, otherVars>>

ConfGrid == {3, 7, 9, 10}

\* predictor_name follows the predictor (the agent names its own "claude_sonnet").
NameOf(predictor_type) ==
    CASE predictor_type = "llm" -> "claude_sonnet"
      [] predictor_type = "ml_model" -> "classifier"
      [] predictor_type = "rule_based" -> "rules"

Prediction(predictor_type, vulnerability_type, confidence) ==
    [predictor_type |-> predictor_type, predictor_name |-> NameOf(predictor_type),
     vulnerability_type |-> vulnerability_type, confidence |-> confidence]

\* The predictions offered: every predictor and confidence for "sqli", and
\* one prediction about another vulnerability type.
Predictions ==
    {Prediction(pt, "sqli", c) : pt \in PredictorTypes, c \in ConfGrid}
        \cup {Prediction("rule_based", "xss", 9)}
PredictionLists == UNION {[1..n -> Predictions] : n \in 0..MaxPreds}

AggIdle ==
    /\ weights = DefaultWeights
    /\ accuracy_history = << >>
    /\ aggIn = << >>
    /\ aggOut = << >>
    /\ recIn = << >>

AggInit ==
    /\ weights \in WeightConfigs
    /\ accuracy_history = << >>
    /\ aggIn = << >>
    /\ aggOut = << >>
    /\ recIn = << >>

\* aggregate runs to completion synchronously: its call and its return are
\* one step, and the caller then takes the result.
Aggregate ==
    /\ aggIn = << >>
    /\ \E predictions \in PredictionLists :
        /\ aggIn' = <<[predictions |-> predictions, vulnerability_type |-> "sqli"]>>
        /\ aggOut' = <<aggregate(predictions, "sqli")>>
        /\ UNCHANGED <<weights, accuracy_history, routerVars, budgetVars, agentVars, extVars>>

TakeResult ==
    /\ aggIn # << >>
    /\ aggIn' = << >>
    /\ aggOut' = << >>
    /\ UNCHANGED <<weights, accuracy_history, routerVars, budgetVars, agentVars, extVars>>

\* Feedback considered with Aggregate: the outcomes of one classifier key,
\* the wrong ones first, MaxHist of them at most.  Every accuracy k/n with
\* n <= MaxHist is reached this way.
Sorted(history) ==
    \A i \in 1..Len(history) - 1 : history[i] => history[i + 1]

GradedKey == KeyOf("ml_model", "sqli")

FeedbackFew ==
    /\ aggIn = << >>
    /\ Len(HistoryOf(GradedKey)) < MaxHist
    /\ \E c \in {3, 7}, was_correct \in BOOLEAN :
        /\ Sorted(Recorded(HistoryOf(GradedKey), c, was_correct))
        /\ RecordOutcome(GradedKey[1], GradedKey[2], c, was_correct)

\* Feedback for the long run of one key: any outcome while the length of
\* the list is less than FreeLen past a multiple of the length a trim keeps,
\* and otherwise a streak that repeats the last outcome.
LongKey == KeyOf("rule_based", "sqli")

FeedbackMany ==
    \E c \in {3, 7}, was_correct \in BOOLEAN :
        LET h == HistoryOf(LongKey)
            correct == ((c >= 5) = was_correct)
        IN  /\ (Len(h) % HistoryKeep) >= FreeLen => correct = h[Len(h)]
            /\ RecordOutcome(LongKey[1], LongKey[2], c, was_correct)

\* Feedback for two keys at once, every argument free: a key is fed while
\* its list is shorter than MaxRec, and a list that starts one short of the
\* cap is fed across the cap.
OtherKey == KeyOf("llm", "xss")
RecKeys == {LongKey, OtherKey}

AlmostFull == [i \in 1..(HistoryCap - 1) |-> i % 3 = 0]

RecInit ==
    /\ weights \in WeightConfigs
    /\ accuracy_history \in {<< >>, [k \in {LongKey} |-> AlmostFull]}
    /\ aggIn = << >>
    /\ aggOut = << >>
    /\ recIn = << >>

FeedbackAny ==
    \E k \in RecKeys :
        /\ Len(HistoryOf(k)) < MaxRec \/ Len(HistoryOf(k)) >= HistoryCap - 1
        /\ \E c \in {3, 5, 7}, was_correct \in BOOLEAN :
               RecordOutcome(k[1], k[2], c, was_correct)

(***************************************************************************)
(* A restart of the service process.  The rows of AIUsageLog are in the    *)
(* database and outlive the process; the DecisionAggregator is constructed *)
(* anew, with the configured weights and the accuracy_history its __init__ *)
(* gives it; the escalation decisions that were in flight are gone.        *)
(***************************************************************************)
BootIdle == boots = 0

Restart ==
    /\ boots < MaxBoots
    /\ boots' = boots + 1
    /\ accuracy_history' = << >>
    /\ aggIn' = << >>
    /\ aggOut' = << >>
    /\ recIn' = << >>
    /\ pc' = [p \in Procs |-> "idle"]
    /\ est' = [p \in Procs |-> 0]
    /\ seen' = [p \in Procs |-> 0]
    /\ answer' = [p \in Procs |-> FALSE]
    /\ UNCHANGED <<weights, ledger, today, routerVars, agentVars, moreVars>>

(***************************************************************************)
(* record_outcome run by several threads on one key.  The method holds no  *)
(* lock, so a thread can be preempted between its statements: the test of  *)
(* line 135, the store of line 136, the append of line 141, the test of    *)
(* line 144, and the read and the store of line 145.                       *)
(***************************************************************************)
Threads == 1..NumThreads
RaceKey == KeyOf("rule_based", "sqli")

Full == [i \in 1..HistoryCap |-> i % 3 = 0]

RaceIdle ==
    /\ thPc = [t \in Threads |-> "idle"]
    /\ thCorrect = [t \in Threads |-> FALSE]
    /\ thSlice = [t \in Threads |-> << >>]
    /\ raceStart = 0

RaceInit ==
    /\ weights = DefaultWeights
    /\ accuracy_history \in {<< >>, [k \in {RaceKey} |-> Full]}
    /\ aggIn = << >>
    /\ aggOut = << >>
    /\ recIn = << >>
    /\ thPc = [t \in Threads |-> "idle"]
    /\ thCorrect = [t \in Threads |-> FALSE]
    /\ thSlice = [t \in Threads |-> << >>]
    /\ raceStart = Len(HistoryOf(RaceKey))

RaceFrame == UNCHANGED <<weights, aggIn, aggOut, raceStart, routerVars, budgetVars,
                         agentVars, bootVars, featVars, lateVars>>

\* lines 126-135: the call, and if key not in self.accuracy_history
RaceEnter(t) ==
    /\ thPc[t] = "idle"
    /\ \E c \in {3, 7}, was_correct \in BOOLEAN :
        /\ recIn' = <<[predictor_type |-> RaceKey[1], vulnerability_type |-> RaceKey[2],
                       predicted_confidence |-> c, was_correct |-> was_correct]>>
        /\ thCorrect' = [thCorrect EXCEPT ![t] = ((c >= 5) = was_correct)]
    /\ thPc' = [thPc EXCEPT ![t] =
                   IF RaceKey \in DOMAIN accuracy_history THEN "append" ELSE "create"]
    /\ UNCHANGED <<accuracy_history, thSlice>>
    /\ RaceFrame

\* line 136: self.accuracy_history[key] = []
RaceCreate(t) ==
    /\ thPc[t] = "create"
    /\ accuracy_history' = [k \in DOMAIN accuracy_history \cup {RaceKey} |->
                               IF k = RaceKey THEN << >> ELSE accuracy_history[k]]
    /\ thPc' = [thPc EXCEPT ![t] = "append"]
    /\ UNCHANGED <<recIn, thCorrect, thSlice>>
    /\ RaceFrame

\* line 141: self.accuracy_history[key].append(correct)
RaceAppend(t) ==
    /\ thPc[t] = "append"
    /\ accuracy_history' =
           [accuracy_history EXCEPT ![RaceKey] = Append(@, thCorrect[t])]
    /\ thPc' = [thPc EXCEPT ![t] = "test"]
    /\ UNCHANGED <<recIn, thCorrect, thSlice>>
    /\ RaceFrame

\* line 144: if len(self.accuracy_history[key]) > 1000
RaceTest(t) ==
    /\ thPc[t] = "test"
    /\ thPc' = [thPc EXCEPT ![t] =
                   IF Len(accuracy_history[RaceKey]) > HistoryCap THEN "slice" ELSE "done"]
    /\ UNCHANGED <<accuracy_history, recIn, thCorrect, thSlice>>
    /\ RaceFrame

\* line 145, right-hand side: self.accuracy_history[key][-500:]
RaceSlice(t) ==
    /\ thPc[t] = "slice"
    /\ thSlice' = [thSlice EXCEPT ![t] = LastK(accuracy_history[RaceKey], HistoryKeep)]
    /\ thPc' = [thPc EXCEPT ![t] = "store"]
    /\ UNCHANGED <<accuracy_history, recIn, thCorrect>>
    /\ RaceFrame

\* line 145, the store: self.accuracy_history[key] = ...
RaceStore(t) ==
    /\ thPc[t] = "store"
    /\ accuracy_history' = [accuracy_history EXCEPT ![RaceKey] = thSlice[t]]
    /\ thSlice' = [thSlice EXCEPT ![t] = << >>]
    /\ thPc' = [thPc EXCEPT ![t] = "done"]
    /\ UNCHANGED <<recIn, thCorrect>>
    /\ RaceFrame

(***************************************************************************)
(* FeatureExtractor (learning/feature_extraction.py)                       *)
(*                                                                         *)
(* A raw_data mapping is a record of its entries; an entry is absent, or   *)
(* present with None ("null"), or present with a value.  A body is what    *)
(* the extractor reads of the text: its length, the names of the patterns  *)
(* that match it and the number of error keywords it contains.             *)
(***************************************************************************)
AbsentEntry(dummy) == [state |-> "absent", v |-> dummy]
NullEntry(dummy) == [state |-> "null", v |-> dummy]
ValueEntry(v) == [state |-> "value", v |-> v]

\* raw_data.get(key, default)
Get(entry, default) == IF entry.state = "absent" THEN ValueEntry(default) ELSE entry

RMin(x, y) == IF RLeq(x, y) THEN x ELSE y
RMax(x, y) == IF RLeq(x, y) THEN y ELSE x

\* SQL_ERROR_PATTERNS and XSS_PATTERNS: name, feature key, weight
SqlErrorPatterns ==
    {[name |-> "mysql_syntax_error", key |-> "sqli_mysql_syntax_error", weight |-> Rat(90, 100)],
     [name |-> "oracle_error", key |-> "sqli_oracle_error", weight |-> Rat(85, 100)],
     [name |-> "sqlstate_error", key |-> "sqli_sqlstate_error", weight |-> Rat(80, 100)],
     [name |-> "postgres_error", key |-> "sqli_postgres_error", weight |-> Rat(85, 100)],
     [name |-> "mssql_error", key |-> "sqli_mssql_error", weight |-> Rat(85, 100)],
     [name |-> "quote_error", key |-> "sqli_quote_error", weight |-> Rat(70, 100)],
     [name |-> "generic_sql_error", key |-> "sqli_generic_sql_error", weight |-> Rat(75, 100)]}

XssPatterns ==
    {[name |-> "script_tag_reflection", key |-> "xss_script_tag_reflection", weight |-> Rat(60, 100)],
     [name |-> "javascript_protocol", key |-> "xss_javascript_protocol", weight |-> Rat(50, 100)],
     [name |-> "event_handler", key |-> "xss_event_handler", weight |-> Rat(40, 100)]}

SecurityHeaders ==
    {"x-content-type-options", "x-frame-options", "content-security-policy",
     "strict-transport-security"}

\* k.lower() for the header names of the model
Lower(name) ==
    CASE name = "X-Frame-Options" -> "x-frame-options"
      [] name = "Content-Security-Policy" -> "content-security-policy"
      [] OTHER -> name

EmptyBody == [len |-> 0, matches |-> {}, keywords |-> 0]
Bodies ==
    {EmptyBody,
     [len |-> 50000, matches |-> {"mysql_syntax_error", "generic_sql_error"}, keywords |-> 1],
     [len |-> 200000, matches |-> {"script_tag_reflection", "event_handler"}, keywords |-> 5]}
HeaderSets ==
    {{}, {"X-Frame-Options", "server"},
     {"x-content-type-options", "X-Frame-Options", "Content-Security-Policy",
      "strict-transport-security"}}
StatusCodes == {0, 200, 404, 500, 600}
ResponseTimes == {-100, 0, 6000, 12000, 40000}

Entries(values, dummy) ==
    {AbsentEntry(dummy), NullEntry(dummy)} \cup {ValueEntry(v) : v \in values}

HttpRawData ==
    [body : Entries(Bodies, EmptyBody), headers : Entries(HeaderSets, {}),
     status_code : Entries(StatusCodes, 0), response_time_ms : Entries(ResponseTimes, 0)]

Raised(exception, line) == [raised |-> exception, line |-> line, features |-> << >>]
Returned(features) == [raised |-> "none", line |-> 0, features |-> features]

Indicator(b) == IF b THEN Rat(1, 1) ELSE Rat(0, 1)

\* HTTPResponseFeatureExtractor.extract, lines 46-87, for entries that hold
\* values
HttpFeatures(body, headers, status_code, response_time) ==
    LET matched == {p \in SqlErrorPatterns \cup XssPatterns : p.name \in body.matches}
        headers_lower == {Lower(k) : k \in headers}
        fixed ==
            [status_code_5xx |-> Indicator(500 <= status_code /\ status_code < 600),
             status_code_4xx |-> Indicator(400 <= status_code /\ status_code < 500),
             response_length |-> RMin(Rat(body.len, 100000), Rat(1, 1)),
             response_time_slow |-> Indicator(response_time > 5000),
             response_time_very_slow |-> Indicator(response_time > 10000),
             response_time_normalized |-> RMin(Rat(response_time, 30000), Rat(1, 1)),
             security_headers_count |->
                 Rat(Cardinality(SecurityHeaders \cap headers_lower),
                     Cardinality(SecurityHeaders)),
             error_verbosity |-> Rat(body.keywords, 5)]
    IN  [k \in {p.key : p \in matched} \cup DOMAIN fixed |->
            IF k \in DOMAIN fixed THEN fixed[k]
            ELSE (CHOOSE p \in matched : p.key = k).weight]

\* HTTPResponseFeatureExtractor.extract: None.lower() at line 48, the
\* comparisons with None at lines 64 and 69, None.items() at line 76
HttpExtract(raw_data) ==
    LET body == Get(raw_data.body, EmptyBody)
        headers == Get(raw_data.headers, {})
        status_code == Get(raw_data.status_code, 0)
        response_time == Get(raw_data.response_time_ms, 0)
    IN  IF body.state = "null" THEN Raised("AttributeError", 48)
        ELSE IF status_code.state = "null" THEN Raised("TypeError", 64)
        ELSE IF response_time.state = "null" THEN Raised("TypeError", 69)
        ELSE IF headers.state = "null" THEN Raised("AttributeError", 76)
        ELSE Returned(HttpFeatures(body.v, headers.v, status_code.v, response_time.v))

Baselines == {100, 400}
TestMillis == {-50, 50, 5100, 40000}
ExpectedDelays == {0, 5000}
TestTimeLists == {<<100>>, <<5000, 5200, 5100>>}

TimingRawData ==
    [baseline_ms : Entries(Baselines, 0), test_ms : Entries(TestMillis, 0),
     expected_delay_ms : Entries(ExpectedDelays, 0),
     test_times : Entries(TestTimeLists, << >>)]

RECURSIVE SumInts(_)
SumInts(s) == IF s = << >> THEN 0 ELSE Head(s) + SumInts(Tail(s))

\* lines 112-113: the population variance of test_times
TimesVariance(test_times) ==
    LET n == Len(test_times)
        squares == [i \in 1..n |-> test_times[i] * test_times[i]]
    IN  Rat(n * SumInts(squares) - SumInts(test_times) * SumInts(test_times), n * n)

\* TimingFeatureExtractor.extract, lines 101-114, for entries that hold values
TimingFeatures(baseline_time, test_time, expected_delay, test_times) ==
    LET time_diff == test_time - baseline_time
        delay_accuracy ==
            RSub(Rat(1, 1), Rat(Abs(time_diff - expected_delay),
                                IF expected_delay > 0 THEN expected_delay ELSE 1))
        keys == {"time_diff_ms"}
                    \cup (IF expected_delay > 0 THEN {"delay_accuracy"} ELSE {})
                    \cup (IF Len(test_times) > 1 THEN {"timing_consistency"} ELSE {})
    IN  [k \in keys |->
            CASE k = "time_diff_ms" -> RMin(Rat(time_diff, 30000), Rat(1, 1))
              [] k = "delay_accuracy" ->
                     RMax(Rat(0, 1), RMin(delay_accuracy, Rat(1, 1)))
              [] k = "timing_consistency" ->
                     RDiv(Rat(1, 1),
                          RAdd(Rat(1, 1), RDiv(TimesVariance(test_times), Rat(1000, 1))))]

\* TimingFeatureExtractor.extract: None in the subtraction of line 101, in
\* the comparison of line 105, in len() of line 111
TimingExtract(raw_data) ==
    LET baseline_time == Get(raw_data.baseline_ms, 100)
        test_time == Get(raw_data.test_ms, 100)
        expected_delay == Get(raw_data.expected_delay_ms, 5000)
        test_times ==
            IF raw_data.test_times.state = "absent" /\ test_time.state = "value"
            THEN ValueEntry(<<test_time.v>>)
            ELSE raw_data.test_times
    IN  IF baseline_time.state = "null" \/ test_time.state = "null"
        THEN Raised("TypeError", 101)
        ELSE IF expected_delay.state = "null" THEN Raised("TypeError", 105)
        ELSE IF test_times.state = "null" THEN Raised("TypeError", 111)
        ELSE Returned(TimingFeatures(baseline_time.v, test_time.v,
                                     expected_delay.v, test_times.v))

FeatInputs ==
    {[extractor |-> "http", raw_data |-> r] : r \in HttpRawData}
        \cup {[extractor |-> "timing", raw_data |-> r] : r \in TimingRawData}

extract(extractor, raw_data) ==
    IF extractor = "http" THEN HttpExtract(raw_data) ELSE TimingExtract(raw_data)

\* A caller holds the arguments of its extract call.
FeatInit ==
    /\ featIn \in {<<i>> : i \in FeatInputs}
    /\ featOut = << >>

Extract ==
    /\ featIn # << >>
    /\ featOut = << >>
    /\ featOut' = <<extract(featIn[1].extractor, featIn[1].raw_data)>>
    /\ UNCHANGED <<featIn, routerVars, budgetVars, agentVars, aggVars, recVars,
                   bootVars, raceVars, lateVars>>

\* The caller takes the features and extracts from other evidence.
NextExtract ==
    /\ featOut # << >>
    /\ \E i \in FeatInputs :
        /\ featIn' = <<i>>
        /\ featOut' = << >>
        /\ UNCHANGED <<routerVars, budgetVars, agentVars, aggVars, recVars,
                       bootVars, raceVars, lateVars>>

FeatIdle ==
    /\ featIn = << >>
    /\ featOut = << >>

(***************************************************************************)
(* Observation (learning/observation.py), ObservationStore                 *)
(* (learning/observation_store.py) and the time-based test of SQLiDetector *)
(* (detectors/sqli.py)                                                     *)
(*                                                                         *)
(* A JSON value is [kind, n, s]: a number n of kind "int" or "float", a    *)
(* string s, null, or a list of floats that all equal n.  A dict is a      *)
(* sequence of <<key, value>> pairs in insertion order, each key once.     *)
(* Of the keys _create_observation writes, status_code, response_time_ms   *)
(* and test_name are kept; url, headers, body and parameter hold one       *)
(* value in every Observation here and are left out.  features is the set  *)
(* of its keys.  A digest stands for the text it was taken of: two texts   *)
(* with one digest do not occur.                                           *)
(***************************************************************************)
JsonInt(n) == [kind |-> "int", n |-> n, s |-> ""]
JsonFloat(n) == [kind |-> "float", n |-> n, s |-> ""]
JsonStr(s) == [kind |-> "str", n |-> 0, s |-> s]
JsonList(n) == [kind |-> "list", n |-> n, s |-> ""]
JsonNull == [kind |-> "null", n |-> 0, s |-> ""]

\* Python's ==: an int and a float of one value are equal.
PyEq(v, w) ==
    IF v.kind \in {"int", "float"} /\ w.kind \in {"int", "float"}
    THEN v.n = w.n
    ELSE v = w

DictKeys(d) == {d[i][1] : i \in DOMAIN d}
DictValue(d, k) == d[CHOOSE i \in DOMAIN d : d[i][1] = k][2]

\* d.get(k, default)
DictGet(d, k, default) == IF k \in DictKeys(d) THEN DictValue(d, k) ELSE default

\* d[k] = v
DictSet(d, k, v) ==
    IF k \in DictKeys(d)
    THEN [i \in DOMAIN d |-> IF d[i][1] = k THEN <<k, v>> ELSE d[i]]
    ELSE Append(d, <<k, v>>)

\* a == b of two dicts: the same keys with equal values, in any order
DictEq(a, b) ==
    /\ DictKeys(a) = DictKeys(b)
    /\ \A k \in DictKeys(a) : PyEq(DictValue(a, k), DictValue(b, k))

\* The keys of raw_data in the order sort_keys=True writes them.
SortedKeys ==
    <<"baseline_ms", "expected_delay_ms", "response_time_ms", "status_code",
      "test_name", "test_times">>

\* json.dumps(d, sort_keys=True): the pairs by key, each value as written
\* (1 and 1.0 are different texts).
dumps(d) ==
    LET Present(k) == k \in DictKeys(d)
        keys == SelectSeq(SortedKeys, Present)
    IN  [i \in 1..Len(keys) |-> <<keys[i], DictValue(d, keys[i])>>]

HTTP_RESPONSE == "http_response"
TIMING == "timing"
ObservationTypes == {HTTP_RESPONSE, TIMING}

EmptyId == << >>

\* content of __post_init__
Content(observation_type, target_id, scan_job_id, raw_data) ==
    <<observation_type, target_id, scan_job_id, dumps(raw_data)>>

\* hashlib.sha256(content.encode()).hexdigest()[:16]
Digest(content) == <<"sha256", content>>

post_init(self) ==
    IF self.id = EmptyId
    THEN [self EXCEPT !.id = Digest(Content(self.observation_type, self.target_id,
                                            self.scan_job_id, self.raw_data))]
    ELSE self

Observation(id, observation_type, target_id, scan_job_id, raw_data, features, ground_truth) ==
    post_init([id |-> id, observation_type |-> observation_type,
               target_id |-> target_id, scan_job_id |-> scan_job_id,
               raw_data |-> raw_data, features |-> features,
               ground_truth |-> ground_truth])

TargetIds == {1}
ScanJobIds == {1}
MeasuredTimes == {JsonInt(120), JsonFloat(120)}
ObsRawDatas ==
    {<< <<"status_code", JsonInt(200)>>, <<"response_time_ms", t>> >> :
        t \in MeasuredTimes}
    \cup {<< <<"response_time_ms", t>>, <<"status_code", JsonInt(200)>> >> :
        t \in MeasuredTimes}

\* An id argument is empty or the id of some other content.
IdArguments == {EmptyId, Digest(Content(TIMING, 1, 1, << >>))}
TimingFeatureKeys == {"time_diff_ms", "delay_accuracy", "timing_consistency"}
FeatureMaps == {{}, {"status_code_2xx"}}

ObsFrame ==
    UNCHANGED <<routerVars, budgetVars, agentVars, aggVars, recVars, bootVars,
                raceVars, featVars, scopeVars, scanVars>>

\* Observation(...) called by any code that holds the class.
NewObservation ==
    /\ Len(obsMem) < MaxMem
    /\ \E id \in IdArguments, observation_type \in ObservationTypes,
          target_id \in TargetIds, scan_job_id \in ScanJobIds,
          raw_data \in ObsRawDatas, features \in FeatureMaps :
        obsMem' = Append(obsMem,
                         Observation(id, observation_type, target_id, scan_job_id,
                                     raw_data, features, << >>))
    /\ UNCHANGED <<obsDb, sqliNames, sqliOut, saveOut>>
    /\ ObsFrame

\* obs.features.update(time_features)
UpdateFeatures ==
    /\ \E i \in DOMAIN obsMem :
        obsMem' = [obsMem EXCEPT ![i].features = @ \cup TimingFeatureKeys]
    /\ UNCHANGED <<obsDb, sqliNames, sqliOut, saveOut>>
    /\ ObsFrame

\* The names the methods of SQLiDetector read from the module's globals and
\* the module does not import.  Python looks a global up when the statement
\* runs: as distributed none of them is bound.
ModuleNames == {"time", "datetime", "TimingFeatureExtractor"}

TimePayloads ==
    <<[payload_name |-> "time_mysql_sleep", expected_delay |-> 5000],
      [payload_name |-> "time_mssql_waitfor", expected_delay |-> 5000],
      [payload_name |-> "time_postgres_sleep", expected_delay |-> 5000]>>

\* What http_client.request returns: response_time_ms may be missing, and
\* response.get then gives None.
Responses ==
    {[target_id |-> 1, status_code |-> JsonInt(200), response_time_ms |-> t] :
        t \in {JsonInt(120), JsonNull}}

\* raw_data of the baseline Observation.
BaselineRaws ==
    {<< >>,
     << <<"response_time_ms", JsonInt(120)>> >>,
     << <<"response_time_ms", JsonNull>> >>}

\* elapsed of the three requests, in ms
ElapsedTimes == {150, 5000}

create_observation(response, scan_job_id, test_name) ==
    Observation(EmptyId, HTTP_RESPONSE, response.target_id, scan_job_id,
                << <<"status_code", response.status_code>>,
                   <<"response_time_ms", response.response_time_ms>>,
                   <<"test_name", JsonStr(test_name)>> >>,
                {}, << >>)

\* Lines 124-138 of _test_time_based for one payload.
TimeBasedObservation(response, scan_job_id, baseline_raw, elapsed, payload) ==
    LET obs == create_observation(response, scan_job_id, payload.payload_name)
        with_times == DictSet(obs.raw_data, "test_times", JsonList(elapsed))
        with_delay == DictSet(with_times, "expected_delay_ms",
                              JsonInt(payload.expected_delay))
        with_baseline ==
            DictSet(with_delay, "baseline_ms",
                    DictGet(baseline_raw, "response_time_ms", JsonInt(100)))
    IN  [obs EXCEPT !.raw_data = with_baseline,
                    !.features = @ \cup TimingFeatureKeys]

StoredIds == {obsDb[j].id : j \in DOMAIN obsDb}

\* ObservationStore.save of each Observation in turn: the row is added unless
\* its id, the primary key, is taken, which ends the call.
FirstTaken(made) ==
    IF \E i \in DOMAIN made : made[i].id \in StoredIds
    THEN CHOOSE i \in DOMAIN made :
            /\ made[i].id \in StoredIds
            /\ \A j \in 1..(i - 1) : made[j].id \notin StoredIds
    ELSE Len(made) + 1

\* SQLiDetector.test_parameter: _get_baseline is not defined.
TestParameter ==
    /\ sqliOut' = <<Raised("AttributeError", 59)>>
    /\ UNCHANGED <<obsMem, obsDb, sqliNames, saveOut>>
    /\ ObsFrame

\* SQLiDetector._test_time_based
TestTimeBased ==
    /\ Len(obsDb) < MaxRows
    /\ \E response \in Responses, baseline_raw \in BaselineRaws,
          elapsed \in ElapsedTimes, scan_job_id \in ScanJobIds :
        LET made == [i \in DOMAIN TimePayloads |->
                        TimeBasedObservation(response, scan_job_id, baseline_raw,
                                             elapsed, TimePayloads[i])]
            saved == SubSeq(made, 1, FirstTaken(made) - 1)
            baseline_ms == DictGet(baseline_raw, "response_time_ms", JsonInt(100))
        IN  IF "time" \notin sqliNames
            THEN /\ sqliOut' = <<Raised("NameError", 115)>>
                 /\ UNCHANGED <<obsMem, obsDb>>
            ELSE IF "datetime" \notin sqliNames
            THEN /\ sqliOut' = <<Raised("NameError", 179)>>
                 /\ UNCHANGED <<obsMem, obsDb>>
            ELSE IF "TimingFeatureExtractor" \notin sqliNames
            THEN /\ sqliOut' = <<Raised("NameError", 133)>>
                 /\ UNCHANGED <<obsMem, obsDb>>
            ELSE IF baseline_ms.kind = "null"
            THEN /\ sqliOut' = <<Raised("TypeError", 101)>>
                 /\ UNCHANGED <<obsMem, obsDb>>
            ELSE IF FirstTaken(made) <= Len(made)
            THEN /\ sqliOut' = <<Raised("IntegrityError", 39)>>
                 /\ obsDb' = obsDb \o saved
                 /\ UNCHANGED obsMem
            ELSE /\ sqliOut' = <<Returned(<< >>)>>
                 /\ obsDb' = obsDb \o made
                 /\ obsMem' = obsMem \o made
    /\ UNCHANGED <<sqliNames, saveOut>>
    /\ ObsFrame

\* ObservationStore._model_to_observation
model_to_observation(model) ==
    Observation(model.id, model.observation_type, model.target_id,
                model.scan_job_id, model.raw_data, model.features,
                model.ground_truth)

\* ObservationStore.get_by_scan_job
GetByScanJob ==
    /\ obsDb # << >>
    /\ Len(obsMem) < MaxMem + Len(obsDb)
    /\ \E scan_job_id \in ScanJobIds :
        LET Match(model) == model.scan_job_id = scan_job_id
            models == SelectSeq(obsDb, Match)
        IN  obsMem' = obsMem \o [i \in DOMAIN models |->
                                    model_to_observation(models[i])]
    /\ UNCHANGED <<obsDb, sqliNames, sqliOut, saveOut>>
    /\ ObsFrame

\* ObservationStore.update_ground_truth
UpdateGroundTruth ==
    /\ Cardinality({j \in DOMAIN obsDb : obsDb[j].ground_truth # << >>}) < MaxTruth
    /\ \E observation_id \in StoredIds, ground_truth \in BOOLEAN :
        obsDb' = [j \in DOMAIN obsDb |->
                    IF obsDb[j].id = observation_id
                    THEN [obsDb[j] EXCEPT !.ground_truth = <<ground_truth>>]
                    ELSE obsDb[j]]
    /\ UNCHANGED <<obsMem, sqliNames, sqliOut, saveOut>>
    /\ ObsFrame

\* How a save call over the Observations with these ids ended.
Saved(ids) == [ids |-> ids, raised |-> "none"]
SaveFailed(ids) == [ids |-> ids, raised |-> "IntegrityError"]

\* ObservationStore.save: session.add of a new row and commit.  The INSERT
\* of an id that is stored violates the primary key: commit raises and the
\* row is not added.
Save ==
    /\ Len(obsDb) < MaxRows
    /\ \E i \in DOMAIN obsMem :
        IF obsMem[i].id \in StoredIds
        THEN /\ saveOut' = <<SaveFailed(<<obsMem[i].id>>)>>
             /\ UNCHANGED obsDb
        ELSE /\ saveOut' = <<Saved(<<obsMem[i].id>>)>>
             /\ obsDb' = Append(obsDb, obsMem[i])
    /\ UNCHANGED <<obsMem, sqliNames, sqliOut>>
    /\ ObsFrame

\* ObservationStore.save_batch of two Observations: add_all and one commit,
\* which adds both rows or, when an id is stored or both ids are one, none.
SaveBatch ==
    /\ Len(obsDb) < MaxRows
    /\ \E i, j \in DOMAIN obsMem :
        IF obsMem[i].id \in StoredIds \/ obsMem[j].id \in StoredIds
            \/ obsMem[i].id = obsMem[j].id
        THEN /\ saveOut' = <<SaveFailed(<<obsMem[i].id, obsMem[j].id>>)>>
             /\ UNCHANGED obsDb
        ELSE /\ saveOut' = <<Saved(<<obsMem[i].id, obsMem[j].id>>)>>
             /\ obsDb' = obsDb \o <<obsMem[i], obsMem[j]>>
    /\ UNCHANGED <<obsMem, sqliNames, sqliOut>>
    /\ ObsFrame

ObsIdle ==
    /\ obsMem = << >>
    /\ obsDb = << >>
    /\ sqliNames = {}
    /\ sqliOut = << >>
    /\ saveOut = << >>

SqliInit ==
    /\ obsMem = << >>
    /\ obsDb = << >>
    /\ sqliNames \in SUBSET ModuleNames
    /\ sqliOut = << >>
    /\ saveOut = << >>

(***************************************************************************)
(* ScopeEnforcer (orchestrator/scope_enforcer.py)                          *)
(*                                                                         *)
(* A string that names a host is held in parts: the scheme it starts with  *)
(* ("" when it has none), the host, and the port written after the host    *)
(* (<< >> when none is written).  A host is a domain name, held as its     *)
(* labels, or an IPv4 address, held as its four octets, or an IPv4         *)
(* network, held as an address and a prefix length.  Two strings are equal *)
(* when their parts are.  None is the empty sequence, a value <<v>>.       *)
(***************************************************************************)
Name(labels) == [labels |-> labels, addr |-> << >>, prefix |-> << >>]
Ip(addr) == [labels |-> << >>, addr |-> addr, prefix |-> << >>]
Cidr(addr, n) == [labels |-> << >>, addr |-> addr, prefix |-> <<n>>]
Text(scheme, host, port) == [scheme |-> scheme, host |-> host, port |-> port]
Bare(host) == Text("", host, << >>)

\* str.lower() of a label, as urlparse applies it to the host
HostLower(label) ==
    CASE label = "EXAMPLE" -> "example"
      [] OTHER -> label

\* url_or_ip.startswith('http://') or url_or_ip.startswith('https://')
IsUrl(url_or_ip) == url_or_ip.scheme \in {"http://", "https://"}

\* urlparse(url_or_ip).hostname: the host alone, in lower case
ParsedHostname(url_or_ip) ==
    Bare([url_or_ip.host EXCEPT
              !.labels = [i \in DOMAIN url_or_ip.host.labels |->
                              HostLower(url_or_ip.host.labels[i])]])

\* allowed.startswith('*.')
IsWildcard(allowed) ==
    /\ allowed.scheme = ""
    /\ Len(allowed.host.labels) >= 2
    /\ allowed.host.labels[1] = "*"

\* hostname.endswith('.' + allowed[2:]): the labels of the domain end the
\* host name and at least one label, which may be empty, stands before them
EndsWithDomain(hostname, allowed) ==
    LET domain == Tail(allowed.host.labels)
        labels == hostname.host.labels
        n == Len(labels) - Len(domain)
    IN  /\ hostname.port = allowed.port
        /\ n >= 1
        /\ SubSeq(labels, n + 1, Len(labels)) = domain

\* '/' in allowed
HasSlash(allowed) == allowed.scheme # "" \/ allowed.host.prefix # << >>

\* ipaddress.ip_address(hostname) and ipaddress.ip_network(allowed,
\* strict=False) return a value; otherwise they raise ValueError
IsAddress(hostname) ==
    /\ hostname.scheme = ""
    /\ hostname.port = << >>
    /\ hostname.host.addr # << >>
    /\ hostname.host.prefix = << >>
IsNetwork(allowed) ==
    /\ allowed.scheme = ""
    /\ allowed.port = << >>
    /\ allowed.host.addr # << >>
    /\ allowed.host.prefix # << >>

\* ip in network: the leading prefix-length bits agree, octet by octet
PrefixBits(n, k) ==
    IF n - 8 * (k - 1) >= 8 THEN 8
    ELSE IF n - 8 * (k - 1) <= 0 THEN 0
    ELSE n - 8 * (k - 1)
MaskedOctet(octet, bits) == octet \div (2 ^ (8 - bits))
InNetwork(addr, network) ==
    \A k \in 1..4 :
        MaskedOctet(addr[k], PrefixBits(network.prefix[1], k))
            = MaskedOctet(network.addr[k], PrefixBits(network.prefix[1], k))

\* One pass of the loop of _is_host_allowed: the entry lets the host through
EntryAllows(hostname, allowed) ==
    \/ hostname = allowed
    \/ IsWildcard(allowed) /\ EndsWithDomain(hostname, allowed)
    \/ /\ HasSlash(allowed)
       /\ IsAddress(hostname)
       /\ IsNetwork(allowed)
       /\ InNetwork(hostname.host.addr, allowed.host)

is_host_allowed(target, hostname) ==
    IF target.allowed_hosts = << >>
    THEN \/ target.url # << >> /\ hostname = target.url[1]
         \/ target.ip_address # << >> /\ hostname = target.ip_address[1]
    ELSE \E i \in DOMAIN target.allowed_hosts :
             EntryAllows(hostname, target.allowed_hosts[i])

ScopeReturned(value) == [raised |-> "none", value |-> value]
ScopeRaised(exception) == [raised |-> exception, value |-> FALSE]

\* parsed.port raises ValueError for a port above 65535; 'if port' of line
\* 51 is false for no port and for port 0
is_in_scope(target, url_or_ip) ==
    LET hostname == IF IsUrl(url_or_ip) THEN ParsedHostname(url_or_ip) ELSE url_or_ip
        port == IF IsUrl(url_or_ip) THEN url_or_ip.port ELSE << >>
    IN  IF port # << >> /\ port[1] > 65535
        THEN ScopeRaised("ValueError")
        ELSE IF ~is_host_allowed(target, hostname)
        THEN ScopeReturned(FALSE)
        ELSE IF /\ port # << >>
                /\ port[1] # 0
                /\ target.allowed_ports # << >>
                /\ \A i \in DOMAIN target.allowed_ports : target.allowed_ports[i] # port[1]
        THEN ScopeReturned(FALSE)
        ELSE ScopeReturned(TRUE)

ExampleCom == Name(<<"example", "com">>)
ScopeHosts ==
    { ExampleCom,
      Name(<<"EXAMPLE", "com">>),
      Name(<<"api", "example", "com">>),
      Name(<<"a", "api", "example", "com">>),
      Name(<<"", "example", "com">>),
      Name(<<"evil", "com">>),
      Ip(<<192, 168, 1, 1>>),
      Ip(<<192, 168, 1, 50>>),
      Ip(<<192, 168, 2, 1>>),
      Ip(<<10, 0, 0, 5>>) }
ScopeSchemes == {"", "http://", "https://"}
ScopePorts == {<< >>, <<0>>, <<80>>, <<8080>>, <<70000>>}
ScopeInputs ==
    {Text(scheme, host, port) : scheme \in ScopeSchemes, host \in ScopeHosts, port \in ScopePorts}

AllowedHostLists ==
    { << >>,
      <<Bare(ExampleCom), Bare(Ip(<<192, 168, 1, 1>>))>>,
      <<Bare(Name(<<"*", "example", "com">>))>>,
      <<Bare(Cidr(<<192, 168, 1, 0>>, 24))>>,
      <<Bare(Cidr(<<192, 168, 0, 0>>, 22)), Bare(ExampleCom)>>,
      <<Bare(Name(<<"EXAMPLE", "com">>))>> }
AllowedPortLists == {<< >>, <<80, 443>>}
TargetUrls ==
    { << >>,
      <<Bare(ExampleCom)>>,
      <<Text("http://", ExampleCom, << >>)>>,
      <<Text("https://", ExampleCom, <<8080>>)>>,
      <<Text("http://", Ip(<<10, 0, 0, 5>>), << >>)>> }
TargetAddresses == {<< >>, <<Bare(Ip(<<10, 0, 0, 5>>))>>}
ScopeTargets ==
    [url : TargetUrls, ip_address : TargetAddresses,
     allowed_hosts : AllowedHostLists, allowed_ports : AllowedPortLists]

\* ScopeEnforcer(target).is_in_scope(url_or_ip)
IsInScope ==
    /\ scopeIn = << >>
    /\ \E target \in ScopeTargets, url_or_ip \in ScopeInputs :
        /\ scopeIn' = <<[target |-> target, url_or_ip |-> url_or_ip]>>
        /\ scopeOut' = <<is_in_scope(target, url_or_ip)>>
        /\ UNCHANGED <<routerVars, budgetVars, agentVars, aggVars, recVars, bootVars,
                       raceVars, featVars, obsVars, scanVars>>

\* The caller has the answer and the enforcer is dropped.
TakeAnswer ==
    /\ scopeIn # << >>
    /\ scopeIn' = << >>
    /\ scopeOut' = << >>
    /\ UNCHANGED <<routerVars, budgetVars, agentVars, aggVars, recVars, bootVars,
                   raceVars, featVars, obsVars, scanVars>>

ScopeIdle ==
    /\ scopeIn = << >>
    /\ scopeOut = << >>

(***************************************************************************)
(* The run_scan task (orchestrator/tasks.py) and the rows it works on      *)
(***************************************************************************)
PENDING == "pending"
RUNNING == "running"
COMPLETED == "completed"
FAILED == "failed"

\* The values of ScanJob.summary: None, the task id create_scan stores, the
\* error of a failed run, the outcome of the scanner
NoSummary == [kind |-> None, success |-> FALSE, ports_found |-> 0, error |-> None]
TaskSummary == [kind |-> "celery_task_id", success |-> FALSE, ports_found |-> 0, error |-> None]
ErrorSummary(error) == [kind |-> "error", success |-> FALSE, ports_found |-> 0, error |-> error]
ResultSummary(result) ==
    [kind |-> "result",
     success |-> result.success,
     ports_found |-> IF result.success THEN Len(result.findings) ELSE 0,
     error |-> IF ~result.success THEN result.error ELSE None]

\* ScanJob(target_id=..., scan_type=...): status defaults to PENDING
ScanJob(target_id, scan_type) ==
    [target_id |-> target_id, scan_type |-> scan_type, status |-> PENDING,
     started_at |-> << >>, completed_at |-> << >>, raw_output_path |-> << >>,
     summary |-> NoSummary]

Finding(scan_job_id, port_info) == [scan_job_id |-> scan_job_id, port |-> port_info]

MaxJobs == 2
MaxPorts == 2
ScanTypes == {"nmap", "nuclei"}
ScanTargets == {t \in ScopeTargets : t.allowed_ports = << >>}
\* What NmapScanner.scan returns: it catches its own exceptions
ScanResults ==
    {[success |-> TRUE, findings |-> [i \in 1..n |-> 79 + i], error |-> ""] : n \in 0..MaxPorts}
        \cup {[success |-> FALSE, findings |-> << >>, error |-> e] :
                 e \in {"Invalid target format", "Nmap exited with code 1"}}

OutOfScope == "Target is out of scope"
Unsupported == "Unsupported scan type"
RunReturned(findings_count) == [raised |-> None, status |-> "completed", findings_count |-> findings_count]
RunRaised(error) == [raised |-> error, status |-> None, findings_count |-> 0]

\* target.url or target.ip_address
TargetUrl(target) == IF target.url # << >> THEN target.url ELSE target.ip_address

\* scope_enforcer.is_in_scope(target_url); None has no startswith
ScopeCheck(target) ==
    IF TargetUrl(target) = << >>
    THEN ScopeRaised("AttributeError")
    ELSE is_in_scope(target, TargetUrl(target)[1])

\* A run that takes a target that is out of scope for one that is in scope.
RunErrorWithoutScope(target, scan_type) ==
    IF ScopeCheck(target).raised # None THEN ScopeCheck(target).raised
    ELSE IF scan_type # "nmap" THEN Unsupported
    ELSE None

\* The exception raised between the scope check and the scanner, None if
\* the run goes on to the scanner
RunError(target, scan_type) ==
    IF ScopeCheck(target).raised # None THEN ScopeCheck(target).raised
    ELSE IF ~ScopeCheck(target).value THEN OutOfScope
    ELSE IF scan_type # "nmap" THEN Unsupported
    ELSE None

ScanFrame ==
    UNCHANGED <<routerVars, budgetVars, agentVars, aggVars, recVars, bootVars,
                raceVars, featVars, obsVars, scopeVars>>

\* create_scan: the job row is added and the task is sent with keyword
\* arguments
CreateScan ==
    /\ scanPc = "idle"
    /\ Len(jobs) < MaxJobs
    /\ \E target \in ScanTargets, scan_type \in ScanTypes :
        /\ jobs' = Append(jobs, [ScanJob(1, scan_type) EXCEPT !.summary = TaskSummary])
        /\ scanArgs' = <<[scan_id |-> Len(jobs) + 1, scan_type |-> scan_type,
                          target_id |-> 1, target |-> target]>>
    /\ scanPc' = "queued"
    /\ UNCHANGED <<findings, scannerCalls, scanResult, scanOut>>
    /\ ScanFrame

\* _run_scan_async, lines 64-79: both rows are loaded, the job is RUNNING
StartRun ==
    /\ scanPc = "queued"
    /\ jobs' = [jobs EXCEPT ![scanArgs[1].scan_id] =
                   [@ EXCEPT !.status = RUNNING, !.started_at = <<"utcnow">>]]
    /\ scanPc' = "running"
    /\ UNCHANGED <<scanArgs, findings, scannerCalls, scanResult, scanOut>>
    /\ ScanFrame

\* lines 83-92: the target is in scope and the type is nmap, the scanner runs
RunScanner ==
    /\ scanPc = "running"
    /\ RunError(scanArgs[1].target, scanArgs[1].scan_type) = None
    /\ \E result \in ScanResults :
        scanResult' = <<result>>
    /\ scannerCalls' = Append(scannerCalls,
                              [scan_id |-> scanArgs[1].scan_id,
                               target |-> TargetUrl(scanArgs[1].target)[1]])
    /\ scanPc' = "scanned"
    /\ UNCHANGED <<scanArgs, jobs, findings, scanOut>>
    /\ ScanFrame

\* lines 83-87 and 120-121: the scope check or the scan type raises
RejectRun ==
    /\ scanPc = "running"
    /\ RunError(scanArgs[1].target, scanArgs[1].scan_type) # None
    /\ scanOut' = <<RunRaised(RunError(scanArgs[1].target, scanArgs[1].scan_type))>>
    /\ scanPc' = "failing"
    /\ UNCHANGED <<scanArgs, jobs, findings, scannerCalls, scanResult>>
    /\ ScanFrame

\* A run that stores COMPLETED whatever the scanner reported.
StoreResultsAsCompleted ==
    /\ scanPc = "scanned"
    /\ jobs' = [jobs EXCEPT ![scanArgs[1].scan_id] =
                   [@ EXCEPT !.status = COMPLETED,
                             !.completed_at = <<"utcnow">>,
                             !.summary = ResultSummary(scanResult[1])]]
    /\ scanOut' = <<RunReturned(0)>>
    /\ scanPc' = "returned"
    /\ UNCHANGED <<scanArgs, findings, scannerCalls, scanResult>>
    /\ ScanFrame

\* lines 95-130: the outcome is stored, the findings are added, the session
\* is committed and the run returns
StoreResults ==
    /\ scanPc = "scanned"
    /\ LET result == scanResult[1]
           scan_id == scanArgs[1].scan_id
       IN  /\ jobs' = [jobs EXCEPT ![scan_id] =
                          [@ EXCEPT !.status = IF result.success THEN COMPLETED ELSE FAILED,
                                    !.completed_at = <<"utcnow">>,
                                    !.raw_output_path =
                                        IF result.success THEN <<"xml_path">> ELSE << >>,
                                    !.summary = ResultSummary(result)]]
           /\ findings' = findings \o
                              (IF result.success
                               THEN [i \in DOMAIN result.findings |->
                                        Finding(scan_id, result.findings[i])]
                               ELSE << >>)
           /\ scanOut' = <<RunReturned(IF result.success THEN Len(result.findings) ELSE 0)>>
    /\ scanPc' = "returned"
    /\ UNCHANGED <<scanArgs, scannerCalls, scanResult>>
    /\ ScanFrame

\* lines 132-138: the job is FAILED with the error and the exception goes on
HandleException ==
    /\ scanPc = "failing"
    /\ jobs' = [jobs EXCEPT ![scanArgs[1].scan_id] =
                   [@ EXCEPT !.status = FAILED,
                             !.completed_at = <<"utcnow">>,
                             !.summary = ErrorSummary(scanOut[1].raised)]]
    /\ scanPc' = "raised"
    /\ UNCHANGED <<scanArgs, findings, scannerCalls, scanResult, scanOut>>
    /\ ScanFrame

\* ScanTask.on_failure: kwargs holds scan_id, the row is found
OnFailure ==
    /\ scanPc = "raised"
    /\ jobs' = [jobs EXCEPT ![scanArgs[1].scan_id] =
                   [@ EXCEPT !.status = FAILED,
                             !.completed_at = <<"utcnow">>,
                             !.summary = ErrorSummary(scanOut[1].raised)]]
    /\ scanPc' = "failed"
    /\ UNCHANGED <<scanArgs, findings, scannerCalls, scanResult, scanOut>>
    /\ ScanFrame

\* The worker is free for the next task.
NextRun ==
    /\ scanPc \in {"returned", "failed"}
    /\ scanPc' = "idle"
    /\ scanArgs' = << >>
    /\ scanResult' = << >>
    /\ scanOut' = << >>
    /\ UNCHANGED <<jobs, findings, scannerCalls>>
    /\ ScanFrame

ScanIdle ==
    /\ scanArgs = << >>
    /\ scanPc = "idle"
    /\ jobs = << >>
    /\ findings = << >>
    /\ scannerCalls = << >>
    /\ scanResult = << >>
    /\ scanOut = << >>

LateIdle == ObsIdle /\ ScopeIdle /\ ScanIdle

OtherIdle == BootIdle /\ RaceIdle /\ FeatIdle /\ LateIdle

(***************************************************************************)
(* Specifications                                                         *)
(***************************************************************************)
InitRouter == RouterInit /\ BudgetIdle /\ AgentInit /\ AggIdle /\ OtherIdle
NextRouter ==
    \/ ClassifyTask
    \/ NextTask
SpecRouter == InitRouter /\ [][NextRouter]_vars

InitBudget == RouterIdle /\ BudgetInit /\ AgentInit /\ AggIdle /\ OtherIdle
NextBudget ==
    \/ \E p \in Procs : CanMakeRequest(p)
    \/ \E p \in Procs : RecordUsage(p)
    \/ \E p \in Procs : SkipEscalation(p)
    \/ AdvanceDay
SpecBudget == InitBudget /\ [][NextBudget]_vars

InitAgent == RouterIdle /\ BudgetIdle /\ AgentInit /\ AggIdle /\ OtherIdle
NextAgent ==
    \/ AnalyzeObservations
    \/ EscalationGate
    \/ CallClaude
    \/ ParseResponse
    \/ ExceptHandler
SpecAgent == InitAgent /\ [][NextAgent]_vars

InitAgg == RouterIdle /\ BudgetIdle /\ AgentInit /\ AggInit /\ OtherIdle
NextAgg ==
    \/ Aggregate
    \/ TakeResult
    \/ FeedbackFew
SpecAgg == InitAgg /\ [][NextAgg]_vars

NextHist == FeedbackMany
SpecHist == InitAgg /\ [][NextHist]_vars

InitRec == RouterIdle /\ BudgetIdle /\ AgentInit /\ RecInit /\ OtherIdle
NextRec == FeedbackAny
SpecRec == InitRec /\ [][NextRec]_vars

\* One escalation decision at a time and feedback, across restarts.
InitRestart == RouterIdle /\ BudgetInit /\ AgentInit /\ AggInit /\ OtherIdle
NextRestart ==
    \/ CanMakeRequest(1)
    \/ RecordUsage(1)
    \/ SkipEscalation(1)
    \/ FeedbackAny
    \/ Restart
SpecRestart == InitRestart /\ [][NextRestart]_vars

InitRace ==
    RouterIdle /\ BudgetIdle /\ AgentInit /\ RaceInit /\ BootIdle /\ FeatIdle /\ LateIdle
NextRace ==
    \/ \E t \in Threads : RaceEnter(t)
    \/ \E t \in Threads : RaceCreate(t)
    \/ \E t \in Threads : RaceAppend(t)
    \/ \E t \in Threads : RaceTest(t)
    \/ \E t \in Threads : RaceSlice(t)
    \/ \E t \in Threads : RaceStore(t)
SpecRace == InitRace /\ [][NextRace]_vars

InitFeat ==
    RouterIdle /\ BudgetIdle /\ AgentInit /\ AggIdle /\ BootIdle /\ RaceIdle
        /\ FeatInit /\ LateIdle
NextFeat ==
    \/ Extract
    \/ NextExtract
SpecFeat == InitFeat /\ [][NextFeat]_vars

InitObs ==
    RouterIdle /\ BudgetIdle /\ AgentInit /\ AggIdle /\ BootIdle /\ RaceIdle
        /\ FeatIdle /\ LateIdle
NextObs ==
    \/ NewObservation
    \/ UpdateFeatures
SpecObs == InitObs /\ [][NextObs]_vars

InitSqli ==
    RouterIdle /\ BudgetIdle /\ AgentInit /\ AggIdle /\ BootIdle /\ RaceIdle
        /\ FeatIdle /\ SqliInit /\ ScopeIdle /\ ScanIdle
NextSqli ==
    \/ TestParameter
    \/ TestTimeBased
    \/ GetByScanJob
    \/ UpdateGroundTruth
SpecSqli == InitSqli /\ [][NextSqli]_vars

\* A record_usage that refuses the row of a request the budget does not cover.
RecordRefused(p) ==
    /\ pc[p] = "asked"
    /\ ~answer[p]
    /\ pc' = [pc EXCEPT ![p] = "recorded"]
    /\ UNCHANGED <<ledger, today, est, seen, answer, routerVars, agentVars, aggVars, extVars>>

\* record_usage called for a request that can_make_request did not approve:
\* the method makes no budget check of its own and adds its row.
RecordUnapproved(p) ==
    /\ pc[p] = "asked"
    /\ ~answer[p]
    /\ ledger' = Append(ledger, [cost |-> est[p], day |-> today])
    /\ pc' = [pc EXCEPT ![p] = "recorded"]
    /\ UNCHANGED <<today, est, seen, answer, routerVars, agentVars, aggVars, extVars>>

\* record_outcome for one key, a bounded number of times, between and during
\* aggregate calls
MaxFeedback == 1
FeedbackOnce ==
    /\ Len(HistoryOf(GradedKey)) < MaxFeedback
    /\ \E was_correct \in BOOLEAN :
        RecordOutcome(GradedKey[1], GradedKey[2], 7, was_correct)

\* One escalation decision, aggregate calls and feedback side by side.
InitFrame == RouterIdle /\ BudgetInit /\ AgentInit /\ AggIdle /\ OtherIdle
NextFrame ==
    \/ CanMakeRequest(1)
    \/ RecordUsage(1)
    \/ RecordUnapproved(1)
    \/ SkipEscalation(1)
    \/ Aggregate
    \/ TakeResult
    \/ FeedbackOnce
SpecFrame == InitFrame /\ [][NextFrame]_vars

InitScope ==
    /\ RouterIdle /\ BudgetIdle /\ AgentInit /\ AggIdle /\ BootIdle /\ RaceIdle
    /\ FeatIdle /\ ObsIdle /\ ScopeIdle /\ ScanIdle
NextScope ==
    \/ IsInScope
    \/ TakeAnswer
SpecScope == InitScope /\ [][NextScope]_vars

InitScan ==
    /\ RouterIdle /\ BudgetIdle /\ AgentInit /\ AggIdle /\ BootIdle /\ RaceIdle
    /\ FeatIdle /\ ObsIdle /\ ScopeIdle /\ ScanIdle
NextScan ==
    \/ CreateScan
    \/ StartRun
    \/ RunScanner
    \/ RejectRun
    \/ StoreResults
    \/ HandleException
    \/ OnFailure
    \/ NextRun
SpecScan == InitScan /\ [][NextScan]_vars

NextStore ==
    \/ NewObservation
    \/ Save
    \/ SaveBatch
SpecStore == InitObs /\ [][NextStore]_vars

(***************************************************************************)
(* Claims about ModelRouter, under SpecRouter                              *)
(***************************************************************************)
Classified(task_type, n) ==
    /\ routerIn = <<[task_type |-> task_type, num_obs |-> n]>>
    /\ routerOut # << >>

\* C1: classify_task with task_type "tool_output_summary" and exactly 3
\* observations returns the cheapest tier, HAIKU.
C1_SummaryOfThreeIsHaiku ==
    Classified("tool_output_summary", 3) => routerOut[1].tier = HAIKU

\* C2: for every observation count n >= 0, classify_task with task_type
\* "business_logic_analysis" returns the most expensive tier, OPUS.
C2_BusinessLogicIsOpus ==
    \A n \in 0..MaxObs :
        Classified("business_logic_analysis", n) => routerOut[1].tier = OPUS

(***************************************************************************)
(* Claims about CostTracker, under SpecBudget                              *)
(***************************************************************************)
\* Today's spend, summed over the rows of the ledger by position.
TodaySpend ==
    LET upto[i \in 0..Len(ledger)] ==
            IF i = 0 THEN 0
            ELSE upto[i - 1] + (IF ledger[i].day = today THEN ledger[i].cost ELSE 0)
    IN  upto[Len(ledger)]

Started == {p \in Procs : pc[p] # "idle"}

\* C3: can_make_request(c) answers true if and only if todaySpend + c <=
\* daily_budget, the boundary included, with todaySpend the sum of the
\* ledger rows of the current UTC date; with daily_budget 5.0 and todaySpend
\* 4.5 the answer is true for 0.4 and false for 0.6; the answer is a boolean.
C3_AnswerIffWithinBudget ==
    /\ [][\A p \in Procs :
            (pc[p] = "idle" /\ pc'[p] = "asked") =>
                /\ seen'[p] = TodaySpend
                /\ answer'[p] = (TodaySpend + est'[p] <= DailyBudget)]_vars
    /\ [](\A p \in Started :
            /\ answer[p] \in BOOLEAN
            /\ (seen[p] = 45000 /\ est[p] = 4000) => answer[p]
            /\ (seen[p] = 45000 /\ est[p] = 6000) => ~answer[p])

C3_Witness ==
    \E p, q \in Started :
        /\ seen[p] = 45000 /\ est[p] = 4000 /\ answer[p]
        /\ seen[q] = 45000 /\ est[q] = 6000 /\ ~answer[q]
        /\ \E r \in Started : seen[r] + est[r] = DailyBudget /\ answer[r]

\* C4: the budget check-then-act is not atomic.  Two decisions can both be
\* answered true before either records, after which today's recorded spend
\* is above daily_budget (C4_Witness is that state); and this is the only
\* way over the budget: a record_usage takes today's spend above
\* daily_budget only for a decision whose check read less than the ledger
\* holds when it records.
C4_OverBudgetOnlyByStaleCheck ==
    [][\A p \in Procs :
          (pc[p] = "asked" /\ pc'[p] = "recorded" /\ TodaySpend' > DailyBudget)
              => seen[p] < TodaySpend]_vars

C4_Witness ==
    \E p, q \in Procs :
        /\ p # q
        /\ pc[p] = "recorded" /\ pc[q] = "recorded"
        /\ answer[p] /\ answer[q]
        /\ seen[p] = seen[q]
        /\ \A r \in Procs \ {p, q} : pc[r] = "idle"
        /\ today = 0
        /\ TodaySpend = seen[p] + est[p] + est[q]
        /\ TodaySpend > DailyBudget

\* C5 as stated: in every interleaving of concurrent escalation decisions,
\* today's recorded spend never exceeds daily_budget by more than one
\* request's estimated cost.
C5_OvershootAtMostOneRequest ==
    TodaySpend <= DailyBudget + MaxCost

\* C5 as amended: today's recorded spend never exceeds daily_budget by more
\* than the estimated costs of all but one of the decisions made: with k
\* decisions by at most k - 1 requests' cost, with two by at most one.
C5_OvershootAtMostAllButOne ==
    LET k == Cardinality(Started)
    IN  TodaySpend <= DailyBudget + (IF k = 0 THEN 0 ELSE k - 1) * MaxCost

C5_Witness ==
    /\ Cardinality({p \in Procs : pc[p] = "recorded"}) >= 3
    /\ TodaySpend > DailyBudget + MaxCost

(***************************************************************************)
(* Claims about analyze_observations, under SpecAgent                      *)
(***************************************************************************)
\* C6: no execution reaches the predictor call (_call_claude) without
\* ModelRouter having chosen a tier and CostTracker.can_make_request having
\* answered before it.
C6_PredictorOnlyAfterBudgetAnswer ==
    \A j \in 1..Len(calls) :
        calls[j] = "_call_claude" =>
            /\ \E i \in 1..(j - 1) : calls[i] = "classify_task"
            /\ \E i \in 1..(j - 1) : calls[i] = "can_make_request"

(***************************************************************************)
(* Claims about DecisionAggregator.aggregate, under SpecAgg                *)
(***************************************************************************)
AggCalled == aggIn # << >>

\* The positions of the predictions that match the requested type.
Matching ==
    {i \in 1..Len(aggIn[1].predictions) :
        aggIn[1].predictions[i].vulnerability_type = aggIn[1].vulnerability_type}

MatchingConfidences == {aggIn[1].predictions[i].confidence : i \in Matching}
MinConfidence == CHOOSE c \in MatchingConfidences : \A d \in MatchingConfidences : c <= d
MaxConfidence == CHOOSE c \in MatchingConfidences : \A d \in MatchingConfidences : d <= c

SomeWeightPositive ==
    \E i \in Matching :
        RLess(RZero, GetDynamicWeight(aggIn[1].predictions[i].predictor_type,
                                      aggIn[1].vulnerability_type))

MatchingVariance ==
    LET preds == aggIn[1].predictions
        m == Cardinality(Matching)
        c(i) == IF i \in Matching THEN preds[i].confidence ELSE 0
        sum[i \in 0..Len(preds)] == IF i = 0 THEN 0 ELSE sum[i - 1] + c(i)
        squares[i \in 0..Len(preds)] == IF i = 0 THEN 0 ELSE squares[i - 1] + c(i) * c(i)
    IN  Rat(m * squares[Len(preds)] - sum[Len(preds)] * sum[Len(preds)], 100 * m * m)

\* C8: recommended_action is "report" exactly when confidence >= 0.8 and
\* agreement >= 0.7, "validate" exactly when that fails and confidence >=
\* 0.5, and "ignore" otherwise, where agreement is 1 - the population
\* standard deviation of the matching confidences (1.0 for one prediction);
\* predictions (rule_based, 0.9) and (llm, 0.7) with no history give
\* confidence 0.8, agreement 0.9 and action "report".
C8_ActionPolicy ==
    AggCalled =>
        LET out == aggOut[1]
            v == out.predictor_agreement.one_minus_sqrt
            high == RLeq(Rat(8, 10), out.confidence) /\ RLeq(v, Rat(9, 100))
            medium == RLeq(Rat(5, 10), out.confidence)
        IN  /\ Cardinality(Matching) = 1 => v = RZero
            /\ Cardinality(Matching) > 1 => v = MatchingVariance
            /\ (out.recommended_action = "report") = high
            /\ (out.recommended_action = "validate") = (~high /\ medium)
            /\ (out.recommended_action = "ignore") = (~high /\ ~medium)
            /\ (/\ weights = DefaultWeights
                /\ aggIn[1].predictions =
                       <<Prediction("rule_based", "sqli", 9), Prediction("llm", "sqli", 7)>>)
               => /\ out.confidence = Rat(8, 10)
                  /\ v = Rat(1, 100)
                  /\ out.recommended_action = "report"

C8_Witness ==
    /\ AggCalled
    /\ weights = DefaultWeights
    /\ aggIn[1].predictions =
           <<Prediction("rule_based", "sqli", 9), Prediction("llm", "sqli", 7)>>
    /\ aggOut[1].recommended_action = "report"

(***************************************************************************)
(* Claims about the accuracy history, under SpecHist                       *)
(***************************************************************************)
AllKeys == {KeyOf(pt, vt) : pt \in PredictorTypes, vt \in VulnTypes}

\* The fraction of correct entries among the most recent min(50, length).
RecentAccuracy(h) ==
    LET n == IF Len(h) < RecentWindow THEN Len(h) ELSE RecentWindow
        k == Cardinality({i \in (Len(h) - n + 1)..Len(h) : h[i]})
    IN  Rat(k, n)

WeightAsDocumented(k) ==
    LET h == HistoryOf(k)
        w == GetDynamicWeight(k[1], k[2])
        base == BaseWeight(k[1])
    IN  /\ Len(h) < MinSamples => w = base
        /\ Len(h) >= MinSamples =>
               w = RMul(base, RAdd(Rat(1, 2), RMul(RecentAccuracy(h), Rat(3, 2))))
        /\ RLeq(RMul(Rat(1, 2), base), w)
        /\ RLeq(w, RMul(Rat(2, 1), base))

NineOfTen(k) ==
    /\ Len(HistoryOf(k)) = 10
    /\ Cardinality({i \in 1..10 : HistoryOf(k)[i]}) = 9

\* C9 as stated: the dynamic weight of a key is the base weight while fewer
\* than 10 outcomes are recorded, and base * (0.5 + a*1.5) from 10 on, a
\* the fraction of correct entries among the most recent min(50, length);
\* it stays within [0.5*base, 2*base]; and 9 correct out of 10 gives
\* 1.85*base, strictly above base.
C9_WeightStrictlyAboveBase ==
    \A k \in AllKeys :
        /\ WeightAsDocumented(k)
        /\ NineOfTen(k) =>
               /\ GetDynamicWeight(k[1], k[2]) = RMul(Rat(185, 100), BaseWeight(k[1]))
               /\ RLess(BaseWeight(k[1]), GetDynamicWeight(k[1], k[2]))

\* C9 as amended: the same, for base weights that are not negative, with
\* 1.85*base strictly above base when base is positive (a base weight
\* configured as 0 gives 0 either way).
C9_WeightAsDocumented ==
    \A k \in AllKeys :
        /\ WeightAsDocumented(k)
        /\ NineOfTen(k) =>
               /\ GetDynamicWeight(k[1], k[2]) = RMul(Rat(185, 100), BaseWeight(k[1]))
               /\ RLess(RZero, BaseWeight(k[1])) =>
                      RLess(BaseWeight(k[1]), GetDynamicWeight(k[1], k[2]))

C9_Witness ==
    /\ weights = DefaultWeights
    /\ NineOfTen(LongKey)
    /\ GetDynamicWeight(LongKey[1], LongKey[2]) = Rat(555, 1000)

\* C10: every key's accuracy history has length <= 1000; the call that
\* would make the length 1001 leaves exactly 500 entries, the 500 most
\* recently recorded outcomes in their original order.
C10_HistoryCap ==
    /\ [](\A k \in DOMAIN accuracy_history : Len(accuracy_history[k]) <= 1000)
    /\ [][\A k \in DOMAIN accuracy_history :
            (Len(accuracy_history[k]) = 1000 /\ accuracy_history'[k] # accuracy_history[k])
                => /\ Len(accuracy_history'[k]) = 500
                   /\ \A i \in 1..499 :
                          accuracy_history'[k][i] = accuracy_history[k][i + 501]]_vars

\* A list of 500 entries whose last two differ: streaks being what they are,
\* only a trim leaves one.
C10_Witness ==
    /\ LongKey \in DOMAIN accuracy_history
    /\ Len(accuracy_history[LongKey]) = 500
    /\ accuracy_history[LongKey][499] # accuracy_history[LongKey][500]
    /\ accuracy_history[LongKey][1] # accuracy_history[LongKey][3]

(***************************************************************************)
(* Claims about the escalation gate, under SpecAgent                       *)
(***************************************************************************)
Called(name) == \E j \in 1..Len(calls) : calls[j] = name

\* The rule-based confidences of the cluster, in hundredths, in order; an
\* observation without a "rule_based" prediction counts as 0.
RuleConfs ==
    [i \in 1..Len(agentObs) |->
        IF agentObs[i].rule_based = -1 THEN 0 ELSE agentObs[i].rule_based]

MaxRuleConf ==
    IF Len(agentObs) = 0 THEN 0
    ELSE CHOOSE m \in {RuleConfs[i] : i \in 1..Len(agentObs)} :
             \A i \in 1..Len(agentObs) : RuleConfs[i] <= m

GateSkipped == Called("_should_use_llm") /\ agentResult = "returned None"
GateEscalated == Called("_should_use_llm") /\ agentResult # "returned None"

PredictorCallFailed == Called("_call_claude") /\ ~Called("_parse_response")

\* C16: if the expensive predictor's call fails, analyze_observations ends
\* by yielding None rather than propagating an exception, and the accuracy
\* history and the spend ledger are as they were before the call.
C16_FailureYieldsNone ==
    (agentPc = "done" /\ PredictorCallFailed) =>
        /\ agentResult = "returned None"
        /\ accuracy_history = << >>
        /\ ledger = << >>

(***************************************************************************)
(* Claims about aggregate without a matching prediction, under SpecAgg     *)
(***************************************************************************)
\* C12: for an empty prediction list and for a list with no prediction of
\* the requested vulnerability_type, aggregate returns confidence 0,
\* agreement 0 and the action "ignore", and nothing else.
C12_NoMatchIsIgnore ==
    (AggCalled /\ Matching = {}) =>
        /\ aggOut # << >>
        /\ DOMAIN aggOut[1] = {"confidence", "predictor_agreement", "recommended_action"}
        /\ aggOut[1].confidence = Rat(0, 1)
        /\ aggOut[1].predictor_agreement.one_minus_sqrt = Rat(1, 1)
        /\ aggOut[1].recommended_action = "ignore"

C12_Witness ==
    /\ AggCalled
    /\ Len(aggIn[1].predictions) = 2
    /\ Matching = {}
    /\ aggOut[1].recommended_action = "ignore"

(***************************************************************************)
(* Claims about restarts, under SpecRestart                                *)
(***************************************************************************)
\* C14: the accuracy history and the spend ledger survive a process
\* restart: every recorded outcome and every ledger entry is still present
\* after it, so dynamic weights and today's spend are as before it.
C14_StateSurvivesRestart ==
    [][boots' # boots =>
          /\ accuracy_history' = accuracy_history
          /\ ledger' = ledger
          /\ GetDailySpend' = GetDailySpend]_vars

(***************************************************************************)
(* Claims about concurrent record_outcome calls, under SpecRace            *)
(***************************************************************************)
Completed == {t \in Threads : thPc[t] = "done"}
NoCallInProgress == \A t \in Threads : thPc[t] \in {"idle", "done"}

\* C15: updates to the accuracy history are serialized: when several
\* callers run record_outcome concurrently on the same key, no outcome is
\* lost in any interleaving; after n completed calls on a fresh key the
\* history holds exactly n entries.
C15_NoOutcomeLost ==
    (raceStart = 0 /\ NoCallInProgress) =>
        Len(HistoryOf(RaceKey)) = Cardinality(Completed)

(***************************************************************************)
(* Claims about FeatureExtractor.extract, under SpecFeat                   *)
(***************************************************************************)
Extracted == featIn # << >> /\ featOut # << >>

\* C17: every value emitted by a FeatureExtractor lies in [0,1], for every
\* input, for each key of HTTPResponseFeatureExtractor.extract and of
\* TimingFeatureExtractor.extract, also when the observed latency is below
\* the baseline latency or a latency is negative.
C17_FeaturesInUnitInterval ==
    (Extracted /\ featOut[1].raised = "none") =>
        \A k \in DOMAIN featOut[1].features :
            /\ featOut[1].features[k].n >= 0
            /\ featOut[1].features[k].n <= featOut[1].features[k].d

\* C18: extract is total: for every raw_data mapping, also one where body,
\* headers, status_code or response_time_ms is absent or present with a
\* null value, it returns a feature map and never raises.
C18_ExtractNeverRaises ==
    Extracted => featOut[1].raised = "none"

(***************************************************************************)
(* Claims about record_outcome, under SpecRec                              *)
(***************************************************************************)
\* The key and the boolean of the call whose arguments a are.
CalledKey(a) == KeyOf(a.predictor_type, a.vulnerability_type)
Directional(a) == ((a.predicted_confidence >= 5) = a.was_correct)

\* The frame of a record_outcome step: the key exists afterwards, no other
\* key appears, the other histories and the base weights are as before.
RecordFrame(a) ==
    /\ DOMAIN accuracy_history' = DOMAIN accuracy_history \cup {CalledKey(a)}
    /\ \A k \in DOMAIN accuracy_history \ {CalledKey(a)} :
           accuracy_history'[k] = accuracy_history[k]
    /\ weights' = weights

\* C11 as stated: record_outcome(predictor_type, vulnerability_type, c,
\* was_correct) appends exactly one boolean, (c >= 0.5) = was_correct, to the
\* end of the history of the key, creating the key if absent, and leaves
\* the histories of all other keys and the base weights unchanged.
C11_AppendsExactlyOne ==
    [][accuracy_history' # accuracy_history =>
          /\ RecordFrame(recIn'[1])
          /\ accuracy_history'[CalledKey(recIn'[1])] =
                 Append(HistoryOf(CalledKey(recIn'[1])), Directional(recIn'[1]))]_vars

\* C11 as amended: the same, except that a call on a history of 1000
\* entries leaves the newest 500 of the 1001, the appended boolean last.
C11_AppendsThenTrims ==
    [][accuracy_history' # accuracy_history =>
          LET key == CalledKey(recIn'[1])
              appended == Append(HistoryOf(key), Directional(recIn'[1]))
          IN  /\ RecordFrame(recIn'[1])
              /\ Len(appended) <= 1000 => accuracy_history'[key] = appended
              /\ Len(appended) > 1000 =>
                     accuracy_history'[key] = SubSeq(appended, 502, 1001)]_vars

C11_Witness ==
    /\ recIn # << >>
    /\ CalledKey(recIn[1]) = OtherKey
    /\ recIn[1].predicted_confidence = 5
    /\ OtherKey \in DOMAIN accuracy_history
    /\ accuracy_history[OtherKey] = <<FALSE, TRUE>>
    /\ LongKey \in DOMAIN accuracy_history
    /\ Len(accuracy_history[LongKey]) = 500

(***************************************************************************)
(* Claims about Observation identity, under SpecObs and SpecSqli           *)
(***************************************************************************)
\* Equal values of the four identity fields, as Python compares them.
SameIdentityFields(a, b) ==
    /\ a.observation_type = b.observation_type
    /\ a.target_id = b.target_id
    /\ a.scan_job_id = b.scan_job_id
    /\ DictEq(a.raw_data, b.raw_data)

\* C19: the id of an Observation is a function of (observation_type,
\* target_id, scan_job_id, raw_data) only: two Observations constructed with
\* equal values of these four fields have identical ids, whatever the key
\* order of raw_data and whatever their overlay fields.
C19_IdIsFunctionOfContent ==
    \A i, j \in DOMAIN obsMem :
        SameIdentityFields(obsMem[i], obsMem[j]) => obsMem[i].id = obsMem[j].id

C21_SaveIsUpsertById ==
    saveOut # << >> =>
        /\ saveOut[1].raised = "none"
        /\ \A k \in DOMAIN saveOut[1].ids :
               Cardinality({j \in DOMAIN obsDb : obsDb[j].id = saveOut[1].ids[k]}) = 1

(***************************************************************************)
(* Further claims about ModelRouter, under SpecRouter                      *)
(***************************************************************************)
\* The tiers whose task types hold task_type, whose observation limit is
\* at least n and whose token budget is at least 500 * n + 900.
MatchingTiers(task_type, n) ==
    {t \in {HAIKU, SONNET, OPUS} :
        /\ task_type \in TierTaskTypes(t)
        /\ (t = HAIKU => n <= 5)
        /\ (t = SONNET => n <= 20)
        /\ 500 * n + 900 <= (CASE t = HAIKU -> 2000 [] t = SONNET -> 8000
                                [] t = OPUS -> 32000)}

\* C22: classify_task always returns a classification: the cheapest tier
\* that satisfies the three conditions, SONNET if none does (an unknown
\* task_type included), with estimated_tokens = 500 * count + 900.
C22_FirstMatchRule ==
    routerOut # << >> =>
        LET task_type == routerIn[1].task_type
            n == routerIn[1].num_obs
            matching == MatchingTiers(task_type, n)
            tier == routerOut[1].tier
        IN  /\ routerOut[1].estimated_tokens = 500 * n + 900
            /\ matching = {} => tier = SONNET
            /\ matching # {} =>
                   /\ tier \in matching
                   /\ \A t \in matching : TierRank(tier) <= TierRank(t)

\* A summary of three observations: HAIKU lists the task type and allows
\* the count, its token budget does not, and the default is returned.
C22_Witness ==
    /\ Classified("tool_output_summary", 3)
    /\ MatchingTiers("tool_output_summary", 3) = {}
    /\ routerOut[1].tier = SONNET
    /\ routerOut[1].estimated_tokens = 2400

\* C29: routing is monotone in load: for a fixed task_type, no smaller
\* observation count is routed to a dearer tier than the count of the call.
C29_MonotoneInLoad ==
    routerOut # << >> =>
        \A m \in 0..routerIn[1].num_obs :
            TierRank(classify_task(routerIn[1].task_type, m).tier)
                <= TierRank(routerOut[1].tier)

(***************************************************************************)
(* Further claims about CostTracker and aggregate                          *)
(***************************************************************************)
\* C23: the ledger is append-only and today's spend is the sum of the costs
\* of the entries of the current UTC date: a record_usage adds one entry at
\* the end and alters none, nothing else changes the ledger, the spend
\* can_make_request uses is that sum, and it is 0 when every entry is of an
\* earlier date.
C23_AppendOnlyDailySum ==
    [][/\ ledger' # ledger =>
              \E p \in Procs :
                  /\ pc[p] = "asked" /\ pc'[p] = "recorded"
                  /\ ledger' = Append(ledger, [cost |-> est[p], day |-> today])
       /\ \A p \in Procs :
              (pc[p] = "asked" /\ pc'[p] = "recorded") =>
                  /\ Len(ledger') = Len(ledger) + 1
                  /\ SubSeq(ledger', 1, Len(ledger)) = ledger
       /\ \A p \in Procs :
              (pc[p] = "idle" /\ pc'[p] = "asked") =>
                  /\ seen'[p] = TodaySpend
                  /\ (\A i \in DOMAIN ledger : ledger[i].day < today) => seen'[p] = 0]_vars

\* The date has advanced past every entry and a check has read a spend of 0.
C23_Witness ==
    /\ today = 1
    /\ ledger # << >>
    /\ \A i \in DOMAIN ledger : ledger[i].day = 0
    /\ \E p \in Procs : pc[p] = "asked" /\ seen[p] = 0 /\ answer[p]

\* C24: the queries are read-only and the tracker is advisory: an aggregate
\* call leaves the accuracy history, the base weights and the ledger as they
\* were; the history changes only by a record_outcome call, which records
\* its outcome under its key; can_make_request (with the get_daily_spend it
\* makes) leaves the ledger unchanged; and record_usage adds its row whether
\* or not the budget covers it.
C24_QueriesReadOnlyTrackerAdvisory ==
    [][/\ (aggIn = << >> /\ aggIn' # << >>) =>
              /\ accuracy_history' = accuracy_history
              /\ weights' = weights
              /\ ledger' = ledger
       /\ weights' = weights
       /\ accuracy_history' # accuracy_history =>
              /\ recIn' # << >>
              /\ aggIn' = aggIn
              /\ LET r == recIn'[1]
                     key == KeyOf(r.predictor_type, r.vulnerability_type)
                 IN  /\ DOMAIN accuracy_history' = DOMAIN accuracy_history \cup {key}
                     /\ \A k \in DOMAIN accuracy_history \ {key} :
                            accuracy_history'[k] = accuracy_history[k]
       /\ \A p \in Procs :
              (pc[p] = "idle" /\ pc'[p] = "asked") =>
                  /\ ledger' = ledger
                  /\ answer'[p] = (seen'[p] + est'[p] <= DailyBudget)
       /\ \A p \in Procs :
              (pc[p] = "asked" /\ pc'[p] = "recorded") =>
                  ledger' = Append(ledger, [cost |-> est[p], day |-> today])]_vars

\* A row was added for a request that was not approved, today's spend is
\* above the budget, and an aggregate call has been made with feedback on
\* record.
C24_Witness ==
    /\ \E p \in Procs : pc[p] = "recorded" /\ ~answer[p]
    /\ TodaySpend > DailyBudget
    /\ aggIn # << >>
    /\ accuracy_history # << >>

(***************************************************************************)
(* Claims about ScopeEnforcer, under SpecScope                             *)
(***************************************************************************)
\* The host a checked string names: the host of a URL as urlparse gives it,
\* the string itself otherwise
CheckedHost(url_or_ip) ==
    IF IsUrl(url_or_ip) THEN ParsedHostname(url_or_ip) ELSE url_or_ip

\* The host equals an entry, or lies strictly below the domain of a
\* "*.domain" entry, or is an address inside a network entry.
HostListed(target, h) ==
    \E i \in DOMAIN target.allowed_hosts :
        LET e == target.allowed_hosts[i]
            below == Len(h.host.labels) - (Len(e.host.labels) - 1)
        IN  \/ h = e
            \/ /\ e.host.labels # << >>
               /\ Head(e.host.labels) = "*"
               /\ h.port = << >>
               /\ below >= 1
               /\ SubSeq(h.host.labels, below + 1, Len(h.host.labels)) = Tail(e.host.labels)
            \/ /\ e.host.prefix # << >>
               /\ h.host.addr # << >>
               /\ h.host.prefix = << >>
               /\ h.port = << >>
               /\ InNetwork(h.host.addr, e.host)

\* A URL with a port written in it, checked against a non-empty port list,
\* has that port in the list.
PortListed(target, url_or_ip) ==
    (IsUrl(url_or_ip) /\ url_or_ip.port # << >> /\ target.allowed_ports # << >>) =>
        \E i \in DOMAIN target.allowed_ports : target.allowed_ports[i] = url_or_ip.port[1]

\* C25: with a non-empty allowed_hosts, is_in_scope(u) is true if and only if
\* the host of u equals an allowed entry, is a strict subdomain of a
\* "*.domain" entry or is an address inside an allowed network, and the port
\* written in a URL is in a non-empty allowed_ports.
C25_InScopeIffHostAndPortListed ==
    (scopeIn # << >> /\ scopeIn[1].target.allowed_hosts # << >>) =>
        ((scopeOut[1] = ScopeReturned(TRUE))
            <=> /\ HostListed(scopeIn[1].target, CheckedHost(scopeIn[1].url_or_ip))
                /\ PortListed(scopeIn[1].target, scopeIn[1].url_or_ip))

\* C28: for a target without allowed_hosts, is_in_scope is true of the
\* target's own url and of its own ip_address.
C28_OwnTargetInScope ==
    (scopeIn # << >> /\ scopeIn[1].target.allowed_hosts = << >>) =>
        LET target == scopeIn[1].target
            url_or_ip == scopeIn[1].url_or_ip
        IN  (\/ target.url # << >> /\ IsUrl(target.url[1]) /\ url_or_ip = target.url[1]
             \/ target.ip_address # << >> /\ url_or_ip = target.ip_address[1])
                => scopeOut[1] = ScopeReturned(TRUE)

(***************************************************************************)
(* Claims about the run_scan task, under SpecScan                          *)
(***************************************************************************)
\* The job of the run in hand
RunJob == jobs[scanArgs[1].scan_id]
\* The run in hand has ended, by returning or by raising
RunEnded == scanArgs # << >> /\ scanPc \in {"returned", "failed"}
\* The jobs no run is working on: all of them, or all but the one in hand
JobsAtRest ==
    {j \in DOMAIN jobs : scanArgs = << >> \/ RunEnded \/ j # scanArgs[1].scan_id}

\* No job whose run has ended is RUNNING or PENDING: it is COMPLETED or
\* FAILED with completed_at set, and COMPLETED only with a scanner call that
\* reported success.
EndedJobsSettled ==
    /\ \A j \in JobsAtRest :
           /\ jobs[j].status \in {COMPLETED, FAILED}
           /\ jobs[j].completed_at # << >>
    /\ \A j \in DOMAIN jobs :
           jobs[j].status = COMPLETED =>
               /\ \E i \in DOMAIN scannerCalls : scannerCalls[i].scan_id = j
               /\ jobs[j].summary.kind = "result"
               /\ jobs[j].summary.success
    /\ (scanArgs # << >> /\ RunJob.status = COMPLETED) =>
           (scanResult # << >> /\ scanResult[1].success)

\* C26: a ScanJob is created PENDING without started_at; the run sets it to
\* RUNNING, with started_at, before it checks the scope, calls the scanner
\* or adds a finding; and when the run has ended, by returning or by
\* raising, for any scan type and scanner result, the job is COMPLETED or
\* FAILED with completed_at set, never RUNNING, and COMPLETED only if the
\* scanner reported success.
C26_JobLifecycle ==
    [][/\ Len(jobs') > Len(jobs) =>
              /\ jobs'[Len(jobs')].status = PENDING
              /\ jobs'[Len(jobs')].started_at = << >>
              /\ jobs'[Len(jobs')].completed_at = << >>
       /\ (scanPc = "queued" /\ scanPc' # "queued") =>
              /\ jobs'[scanArgs[1].scan_id].status = RUNNING
              /\ jobs'[scanArgs[1].scan_id].started_at # << >>
              /\ UNCHANGED <<scannerCalls, findings, scanOut>>
       /\ (scannerCalls' # scannerCalls \/ findings' # findings \/ scanOut' # scanOut) =>
              RunJob.started_at # << >>
       /\ EndedJobsSettled']_vars

\* A run has returned with its job COMPLETED and a finding stored, after a
\* run that raised and left its job FAILED.
C26_Witness ==
    /\ Len(jobs) = 2
    /\ scanPc = "returned"
    /\ jobs[1].status = FAILED /\ jobs[1].summary.kind = "error"
    /\ jobs[2].status = COMPLETED /\ jobs[2].completed_at # << >>
    /\ \E i \in DOMAIN findings : findings[i].scan_job_id = 2

\* The target of the run in hand is out of scope
RunOutOfScope ==
    /\ scanArgs # << >>
    /\ ScopeCheck(scanArgs[1].target) = ScopeReturned(FALSE)

\* C27: the scanner is called only for a target is_in_scope returned true
\* for, with the url or ip that was checked; the run of a target that is out
\* of scope never calls the scanner, adds no Finding, and ends by raising
\* with the job FAILED and the error in its summary.
C27_ScannerOnlyInScope ==
    [][/\ scannerCalls' # scannerCalls =>
              /\ scanArgs # << >>
              /\ ScopeCheck(scanArgs[1].target) = ScopeReturned(TRUE)
              /\ scannerCalls' = Append(scannerCalls,
                                        [scan_id |-> scanArgs[1].scan_id,
                                         target |-> TargetUrl(scanArgs[1].target)[1]])
       /\ RunOutOfScope' =>
              /\ \A i \in DOMAIN scannerCalls' :
                     scannerCalls'[i].scan_id # scanArgs'[1].scan_id
              /\ \A i \in DOMAIN findings' :
                     findings'[i].scan_job_id # scanArgs'[1].scan_id
              /\ scanPc' # "returned"
              /\ scanPc' = "failed" =>
                     /\ jobs'[scanArgs'[1].scan_id].status = FAILED
                     /\ jobs'[scanArgs'[1].scan_id].summary = ErrorSummary(OutOfScope)
                     /\ scanOut' = <<RunRaised(OutOfScope)>>]_vars

\* The run of an nmap scan of a target that is out of scope has ended, after
\* a run that called the scanner.
C27_Witness ==
    /\ RunOutOfScope
    /\ scanArgs[1].scan_type = "nmap"
    /\ scanArgs[1].scan_id = 2
    /\ scanPc = "failed"
    /\ Len(scannerCalls) = 1
    /\ jobs[2].status = FAILED

\* C30: when the run returns a value with status "completed", the stored
\* status of its job is COMPLETED.
C30_ReturnAgreesWithJob ==
    (scanArgs # << >> /\ scanOut # << >> /\ scanOut[1].status = "completed") =>
        RunJob.status = COMPLETED

============================================================================
